---- MODULE Spec2Model ----
(***************************************************************************)
(* Model of the local-rag retrieval pipeline: the Retrieval Orchestrator   *)
(* (src/services/query_service.py), the Vector Index Adapter               *)
(* (src/vectorstore/chroma_store.py), the Chunker (src/parsers/chunker.py) *)
(* and the ingestion loop (src/services/ingestion_service.py).             *)
(*                                                                         *)
(* Three specifications share the variables:                               *)
(*   SpecQuery  - one query() request against a populated vector index     *)
(*   SpecTopK   - the adaptive top-k computation over large collections    *)
(*   SpecIngest - ingest_book: the chunk() window loop per text segment,   *)
(*                chunk_hierarchical and the creation of Chunk entities    *)
(*                                                                         *)
(* Encoding of Python values: None of an optional string is "", None of an *)
(* optional integer is NoneInt; UUIDs are naturals drawn from a counter,   *)
(* ordered as their string forms are.                                      *)
(***************************************************************************)
EXTENDS Integers, Sequences, FiniteSets, TLC

VARIABLES
    \* ---- vector index (ChromaDB client state) ----
    store,            \* collection name -> sequence of stored rows, in insertion order
    \* ---- QueryService configuration and one query() call ----
    request,          \* the QueryRequest
    neighbor_window,  \* QueryService.neighbor_window
    has_mcp_manager,  \* QueryService.mcp_manager is not None
    pc,               \* position of the handler
    top_k,            \* top_k passed to search
    search_result,    \* what vector_store.search returned
    book_chunks,      \* query(): book_chunks
    mcp_context,      \* query(): mcp_context
    mcp_calls,        \* sources for which mcp_manager.search_context was called, in order
    mcp_raised,       \* sources whose search_context raised
    fetch_failed,     \* documents whose neighbor fetch raised ChromaError
    combined_context, \* what _combine_context returned
    gen_calls,        \* number of llm_client.generate calls
    response,         \* the QueryResponse
    error,            \* the exception that left query(), "" when none
    \* ---- adaptive top-k over an abstract collection size ----
    collection_size,  \* what get_collection_size returned
    \* ---- BookIngestionService.ingest_book and TextChunker ----
    chunker,          \* TextChunker: chunk_size, overlap, children_per_parent
    segments,         \* text_segments the parser extracted
    seg_index,        \* segment the loop of ingest_book is at (from 1)
    text,             \* chunk(): the stripped text
    code_blocks,      \* chunk(): detected code spans, sorted by start
    start,            \* chunk(): window start
    chunks,           \* chunk(): the chunks emitted so far
    child_chunks,     \* chunk_hierarchical(): what chunk() returned
    all_chunks_data,  \* ingest_book(): chunk dicts of all segments
    next_uuid,        \* number of uuid4() values drawn
    \* ---- SessionManager ----
    sessions,         \* SessionManager._sessions: session id -> list of book ids
    max_books,        \* SessionManager.max_books
    \* ---- calls on the session manager and on the vector store ----
    last_call,        \* the last call, its arguments, its outcome and the state before it
    added_by,         \* chunk id -> the session id it was added under
    \* ---- streaming endpoint ----
    events,           \* the SSE events generate_sse_stream has yielded, in order
    \* ---- MCPManager and its adapters ----
    registered,       \* MCPManager._adapters: the registered source names, in order
    connected,        \* the adapters whose client has a session
    attempts,         \* connect()/disconnect() attempts of the last batch call, in order
    tool_calls,       \* remote tool calls of the last search_context
    adapter_result,   \* what the last search_context returned or raised
    \* ---- requests in flight and the process-wide singletons they resolve ----
    procs,            \* request id -> the route being served, its arguments and its position
    managers,         \* SessionManager instances built so far: instance -> its _sessions
    cached,           \* lru_cache of get_session_manager_singleton: the instance held, 0 if none
    mcp_manager,      \* dependencies._mcp_manager: "None" or "manager" (the MCPManager above)
    mcp_manager_initialized,  \* dependencies._mcp_manager_initialized
    \* ---- one BaseMCPClient ----
    client            \* its parameters, _session, _context_manager and what it holds open

qvars == <<request, neighbor_window, has_mcp_manager, pc, top_k, search_result,
           book_chunks, mcp_context, mcp_calls, mcp_raised, fetch_failed,
           combined_context, gen_calls, response, error>>

qvars_but_pc == <<request, neighbor_window, has_mcp_manager, top_k, search_result,
                  book_chunks, mcp_context, mcp_calls, mcp_raised, fetch_failed,
                  combined_context, gen_calls, response, error>>

ivars == <<chunker, segments, seg_index, text, code_blocks, start, chunks,
           child_chunks, all_chunks_data, next_uuid>>

rvars == <<procs, managers, cached, mcp_manager, mcp_manager_initialized, client>>

xvars == <<sessions, max_books, last_call, added_by, events, registered, connected,
           attempts, tool_calls, adapter_result, rvars>>

vars == <<store, qvars, collection_size, ivars, xvars>>

NoneInt == -1

\* ------------------------------------------------------------------------
\* Bounds of the model
\* ------------------------------------------------------------------------
MaxWindow == 2          \* neighbor_window ranges over 0..MaxWindow
MaxExternal == 2        \* an external source returns at most this many strings
MaxTopK == 2            \* literal request.top_k ranges over 1..MaxTopK
MaxSegChunks == 3       \* chunks of one text segment of a stored document
MaxStoreRows == 4       \* rows of the collection the query runs against
MaxCollectionSize == 1100 \* collection sizes of the top-k computation
MaxParts == 3           \* text fragments a parsed document is made of
MaxSegments == 2        \* text segments (pages, sections) of a document
MaxOverlap == 2         \* TextChunker.overlap ranges over 0..MaxOverlap
MaxChunks == 8          \* the window loop is followed until it has emitted this many chunks
ModelChunkSize == 10    \* TextChunker.chunk_size of the model's chunker

\* ------------------------------------------------------------------------
\* Helpers on sequences
\* ------------------------------------------------------------------------
Range(s) == {s[i] : i \in DOMAIN s}

Min(a, b) == IF a <= b THEN a ELSE b

Max(a, b) == IF a >= b THEN a ELSE b

\* all sequences of length n over S without repetition
RECURSIVE Arrangements(_, _)
Arrangements(S, n) ==
    IF n = 0 THEN {<<>>}
    ELSE UNION {{<<x>> \o t : t \in Arrangements(S \ {x}, n - 1)} : x \in S}

\* the least element of a non-empty set of integers
Least(S) == CHOOSE x \in S : \A y \in S : x <= y

\* ------------------------------------------------------------------------
\* Session ids and collection names (ChromaVectorStore._sanitize_collection_name)
\* ------------------------------------------------------------------------

\* session ids are strings, modelled as sequences of characters
SessionDot == <<"a", ".", "b">>

SessionUnderscore == <<"a", "_", "b">>

SessionS1 == <<"s", "1">>

\* the characters of the model for which str.isalpha() holds
Letters == {"a", "b", "c", "e", "i", "l", "n", "o", "s", "t"}

\* the other characters for which str.isalnum() holds
Digits == {"0", "1"}

\* line 287: every character that is not alphanumeric, "-" or "_" becomes "_"
ReplaceInvalid(name) ==
    [i \in DOMAIN name |->
        IF name[i] \in Letters \cup Digits \cup {"-", "_"} THEN name[i] ELSE "_"]

\* str.rstrip("-_")
RECURSIVE RStripSeparators(_)
RStripSeparators(t) ==
    IF t # <<>> /\ t[Len(t)] \in {"-", "_"}
    THEN RStripSeparators(SubSeq(t, 1, Len(t) - 1))
    ELSE t

\* _sanitize_collection_name, lines 286-301
SanitizeCollectionName(name) ==
    LET replaced == ReplaceInvalid(name)
        lettered == IF replaced # <<>> /\ replaced[1] \notin Letters
                    THEN <<"c", "_">> \o replaced
                    ELSE replaced
        clamped == SubSeq(lettered, 1, IF Len(lettered) < 63 THEN Len(lettered) ELSE 63)
        padded == IF Len(clamped) < 3 THEN clamped \o <<"_", "c", "o", "l">> ELSE clamped
        stripped == RStripSeparators(padded)
    IN IF stripped = <<>> THEN <<"c", "o", "l", "l", "e", "c", "t", "i", "o", "n">>
       ELSE stripped

\* ------------------------------------------------------------------------
\* Chunk entity and the rows the vector index keeps
\* ------------------------------------------------------------------------

\* QuerySource (src/models/query.py)
QuerySource == {"books", "compliance", "mslearn", "export_control", "all", "both"}

\* Chunk reconstructed from a stored row (search and get_neighbor_chunks):
\* page_number -1 reads back as None, empty strings read back as None
RowToChunk(row) ==
    [id |-> row.id,
     book_id |-> row.book_id,
     content |-> row.document,
     page_number |-> IF row.page_number # -1 THEN row.page_number ELSE NoneInt,
     chapter |-> row.chapter,
     sequence_number |-> row.sequence_number,
     parent_chunk_id |-> row.parent_chunk_id,
     parent_content |-> row.parent_content]

\* get_collection_size: 0 when the collection does not exist
GetCollectionSize(st, cid) ==
    LET name == SanitizeCollectionName(cid)
    IN IF name \notin DOMAIN st THEN 0 ELSE Len(st[name])

\* search: [] when the collection does not exist, otherwise min(top_k, count)
\* rows in the order of the store's similarity ranking, which is any order
SearchResults(st, cid, k) ==
    LET name == SanitizeCollectionName(cid)
    IN IF name \notin DOMAIN st THEN {<<>>}
       ELSE {[i \in DOMAIN a |-> RowToChunk(a[i])] :
               a \in Arrangements(Range(st[name]), Min(k, Len(st[name])))}

\* only the chunk and the chunks after it
SeqNumbersToFetch_OneSided(cks, book, window) ==
    {cks[i].sequence_number + off :
        i \in {j \in DOMAIN cks : cks[j].book_id = book},
        off \in 0..window}

\* chunks_to_fetch[book]: the sequence numbers seq-window..seq+window that are >= 0
SeqNumbersToFetch(cks, book, window) ==
    {cks[i].sequence_number + off :
        i \in {j \in DOMAIN cks : cks[j].book_id = book},
        off \in (0 - window)..window} \cap Nat

\* sort key (str(book_id), sequence_number)
KeyLess(c, d) ==
    \/ c.book_id < d.book_id
    \/ c.book_id = d.book_id /\ c.sequence_number < d.sequence_number

\* sorted(): stable insertion of x into an already sorted sequence
RECURSIVE InsertSorted(_, _)
InsertSorted(sorted, x) ==
    IF sorted = <<>> THEN <<x>>
    ELSE IF KeyLess(x, sorted[Len(sorted)])
         THEN InsertSorted(SubSeq(sorted, 1, Len(sorted) - 1), x) \o <<sorted[Len(sorted)]>>
         ELSE sorted \o <<x>>

RECURSIVE SortChunks(_)
SortChunks(s) ==
    IF s = <<>> THEN <<>>
    ELSE InsertSorted(SortChunks(SubSeq(s, 1, Len(s) - 1)), s[Len(s)])

\* the books of the input chunks in first-appearance order (dict insertion order)
RECURSIVE BooksInOrder(_)
BooksInOrder(cks) ==
    IF cks = <<>> THEN <<>>
    ELSE LET rest == BooksInOrder(SubSeq(cks, 1, Len(cks) - 1))
             b == cks[Len(cks)].book_id
         IN IF b \in Range(rest) THEN rest ELSE rest \o <<b>>

\* rows of one book whose sequence number is wanted, in store order;
\* a fetch that raises ChromaError is logged and contributes nothing
FetchBook(rows, book, wanted, failed) ==
    IF book \in failed THEN <<>>
    ELSE LET keep(r) == r.book_id = book /\ r.sequence_number \in wanted
             kept == SelectSeq(rows, keep)
         IN [i \in DOMAIN kept |-> RowToChunk(kept[i])]

RECURSIVE FetchAll(_, _, _, _, _)
FetchAll(rows, books, cks, window, failed) ==
    IF books = <<>> THEN <<>>
    ELSE FetchAll(rows, SubSeq(books, 1, Len(books) - 1), cks, window, failed)
           \o FetchBook(rows, books[Len(books)],
                        SeqNumbersToFetch(cks, books[Len(books)], window), failed)

\* {chunk.id: chunk for chunk in all_chunks}.values(): first position, last value
RECURSIVE DedupById(_)
DedupById(s) ==
    IF s = <<>> THEN <<>>
    ELSE LET rest == DedupById(SubSeq(s, 1, Len(s) - 1))
             x == s[Len(s)]
         IN IF \E i \in DOMAIN rest : rest[i].id = x.id
            THEN [i \in DOMAIN rest |-> IF rest[i].id = x.id THEN x ELSE rest[i]]
            ELSE rest \o <<x>>

\* get_neighbor_chunks(chunks, collection_id, window); failed = the books whose
\* collection.get raised ChromaError
GetNeighborChunks(st, cks, cid, window, failed) ==
    LET name == SanitizeCollectionName(cid)
    IN IF cks = <<>> \/ window < 1 THEN cks
       ELSE IF name \notin DOMAIN st THEN cks
       ELSE SortChunks(DedupById(FetchAll(st[name], BooksInOrder(cks), cks, window, failed)))

\* a read that calls get_or_create_collection
StoreAfterRead_GetOrCreate(st, cid) ==
    LET name == SanitizeCollectionName(cid)
    IN IF name \in DOMAIN st THEN st
       ELSE [c \in DOMAIN st \cup {name} |-> IF c = name THEN <<>> ELSE st[c]]

\* the store after get_collection_size, search and get_neighbor_chunks: each
\* returns early when list_collections() does not hold the name (lines 93-95,
\* 107-109, 203-206) and otherwise only reads (get_collection, count, query,
\* get)
StoreAfterRead(st, cid) ==
    LET name == SanitizeCollectionName(cid)
    IN IF name \notin DOMAIN st THEN st
       ELSE [c \in DOMAIN st |-> st[c]]

\* ------------------------------------------------------------------------
\* QueryService helpers
\* ------------------------------------------------------------------------

\* round() in place of int(): round half to even
CalculatedTopK_Rounded(size, halfPercents) ==
    LET n == size * halfPercents
        q == n \div 200
        r == n % 200
    IN IF r < 100 THEN q
       ELSE IF r > 100 THEN q + 1
       ELSE IF q % 2 = 0 THEN q ELSE q + 1

\* int(collection_size * (percentage / 100)) for a percentage given in half
\* percents (0.5 .. 10.0 is 1 .. 20): the truncated product
CalculatedTopK(size, halfPercents) == (size * halfPercents) \div 200

\* _retrieve_book_chunks, lines 105-114
ComputeTopK(req, size) ==
    IF req.retrieval_percentage # NoneInt
    THEN IF size = 0 THEN 5
         ELSE Max(5, Min(100, CalculatedTopK(size, req.retrieval_percentage)))
    ELSE req.top_k

\* _build_enhanced_chunks: content replaced by parent_content when there is one
BuildEnhancedChunks(cks) ==
    [i \in DOMAIN cks |->
        [cks[i] EXCEPT !.content =
            IF cks[i].parent_content # "" THEN cks[i].parent_content
            ELSE cks[i].content]]

\* f"{chunk.content}{source_suffix}" of _combine_context
ChunkToString(c) ==
    LET hasCh == c.chapter # ""
        hasPg == c.page_number # NoneInt /\ c.page_number # 0
        ch == "Chapter: " \o c.chapter
        pg == "Page " \o ToString(c.page_number)
    IN  IF hasCh /\ hasPg THEN c.content \o " [" \o ch \o ", " \o pg \o "]"
        ELSE IF hasCh THEN c.content \o " [" \o ch \o "]"
        ELSE IF hasPg THEN c.content \o " [" \o pg \o "]"
        ELSE c.content

\* _combine_context with the local strings put first
CombineContext_LocalFirst(cks, external) ==
    IF external = <<>> THEN [kind |-> "chunks", items |-> cks]
    ELSE IF cks = <<>> THEN [kind |-> "strings", items |-> external]
    ELSE [kind |-> "strings",
          items |-> [i \in DOMAIN cks |-> ChunkToString(cks[i])] \o external]

\* _combine_context(book_chunks, compliance_context); the result is a list of
\* Chunk objects or a list of strings, tagged with its element type
CombineContext(cks, external) ==
    IF external = <<>> THEN [kind |-> "chunks", items |-> cks]
    ELSE IF cks = <<>> THEN [kind |-> "strings", items |-> external]
    ELSE [kind |-> "strings",
          items |-> external \o [i \in DOMAIN cks |-> ChunkToString(cks[i])]]

\* _retrieve_mcp_context without its try/except
RetrieveMcpContext_Uncaught(hasManager, outcome) ==
    IF ~hasManager THEN [called |-> FALSE, propagates |-> FALSE, context |-> <<>>]
    ELSE IF outcome.raises THEN [called |-> TRUE, propagates |-> TRUE, context |-> <<>>]
    ELSE [called |-> TRUE, propagates |-> FALSE, context |-> outcome.context]

\* _retrieve_mcp_context: [] without a manager; an exception of search_context
\* is caught, logged and turned into []
RetrieveMcpContext(hasManager, outcome) ==
    IF ~hasManager THEN [called |-> FALSE, propagates |-> FALSE, context |-> <<>>]
    ELSE IF outcome.raises THEN [called |-> TRUE, propagates |-> FALSE, context |-> <<>>]
    ELSE [called |-> TRUE, propagates |-> FALSE, context |-> outcome.context]

\* QueryResponse.sources of query(): the list _retrieve_book_chunks returned
ResponseSources(searched, retrieved) == retrieved

\* ------------------------------------------------------------------------
\* Collections a query can run against: what ingest_book stores
\* ------------------------------------------------------------------------

\* rows of one text segment of a document: chunk_hierarchical numbers the
\* children of each segment from 0 and joins each group of three
SegmentRows(book, seg, n, base, hasMeta) ==
    [i \in 1..n |->
        [id |-> base + i,
         book_id |-> book,
         document |-> "c" \o ToString(base + i),
         page_number |-> IF hasMeta THEN seg ELSE -1,
         chapter |-> IF hasMeta THEN "Intro" ELSE "",
         sequence_number |-> i - 1,
         parent_chunk_id |-> 100 + base + i,
         parent_content |-> "p" \o ToString(book) \o ToString(seg) \o ToString((i - 1) \div 3)]]

RECURSIVE Sum(_)
Sum(s) == IF s = <<>> THEN 0 ELSE s[Len(s)] + Sum(SubSeq(s, 1, Len(s) - 1))

RECURSIVE BookRows(_, _, _, _)
BookRows(book, shape, base, hasMeta) ==
    IF shape = <<>> THEN <<>>
    ELSE LET front == SubSeq(shape, 1, Len(shape) - 1)
         IN BookRows(book, front, base, hasMeta)
              \o SegmentRows(book, Len(shape), shape[Len(shape)], base + Sum(front), hasMeta)

\* a document is one or two segments of 1..MaxSegChunks chunks
BookShapes ==
    {<<n>> : n \in 1..MaxSegChunks} \cup {<<n, m>> : n \in 1..MaxSegChunks, m \in 1..2}

\* the store with the one collection of session s1 holding rows
OneCollection(rows) == [c \in {SanitizeCollectionName(SessionS1)} |-> rows]

StoreChoices ==
    {<<>>}                                   \* no collection for the session
    \cup {OneCollection(<<>>)}               \* collection emptied by deletions
    \cup {OneCollection(BookRows(1, sh, 0, TRUE)) :
            sh \in {x \in BookShapes : Sum(x) <= MaxStoreRows}}
    \cup {OneCollection(BookRows(2, <<m>>, 0, FALSE) \o BookRows(1, sh, m, TRUE)) :
            sh \in {x \in BookShapes : Sum(x) < MaxStoreRows},
            m \in 1..2}

ExternalStrings(source, n) == [i \in 1..n |-> source \o "#" \o ToString(i)]

\* what mcp_manager.search_context can do: raise, or return 0..MaxExternal strings
ExternalOutcomes(source) ==
    {[raises |-> TRUE, context |-> <<>>]}
    \cup {[raises |-> FALSE, context |-> ExternalStrings(source, n)] : n \in 0..MaxExternal}

Requests ==
    [query : {"q"}, session_id : {SessionS1}, source : QuerySource,
     top_k : 1..MaxTopK, retrieval_percentage : {NoneInt, 4}]

\* ------------------------------------------------------------------------
\* QueryService.query, one step per awaited call
\* ------------------------------------------------------------------------
NoResponse == [answer |-> "", sources |-> <<>>]

NoContext == [kind |-> "none", items |-> <<>>]

NoCall == [op |-> "none"]

NoResult == [kind |-> "none", value |-> <<>>]

\* SessionManager not in use
IdleSessions ==
    /\ sessions = <<>>
    /\ max_books = 0

\* no generate_sse_stream under way
IdleStream == events = <<>>

\* no MCPManager in use
IdleMcp ==
    /\ registered = <<>>
    /\ connected = {}
    /\ attempts = <<>>
    /\ tool_calls = <<>>
    /\ adapter_result = NoResult

\* no session manager, store client, stream or MCP manager in use
IdleMcpGlobals ==
    /\ mcp_manager = "None"
    /\ mcp_manager_initialized = FALSE

NoClient == [transport |-> "stdio", command |-> FALSE, http_url |-> FALSE,
             session |-> "None", context_manager |-> "None"]

IdleRequests ==
    /\ procs = <<>>
    /\ managers = <<>>
    /\ cached = 0
    /\ IdleMcpGlobals
    /\ client = NoClient

IdleExtras ==
    /\ IdleSessions
    /\ last_call = NoCall
    /\ added_by = <<>>
    /\ IdleStream
    /\ IdleMcp
    /\ IdleRequests

\* no ingestion under way
IdleIngest ==
    /\ chunker = [chunk_size |-> 0, overlap |-> 0, children_per_parent |-> 0]
    /\ segments = <<>>
    /\ seg_index = 0
    /\ text = <<>>
    /\ code_blocks = <<>>
    /\ start = 0
    /\ chunks = <<>>
    /\ child_chunks = <<>>
    /\ all_chunks_data = <<>>
    /\ next_uuid = 0

InitQuery ==
    /\ IdleExtras
    /\ store \in {st \in StoreChoices : GetCollectionSize(st, SessionS1) <= MaxStoreRows}
    /\ request \in Requests
    /\ neighbor_window \in 0..MaxWindow
    /\ has_mcp_manager \in BOOLEAN
    /\ pc = "start"
    /\ top_k = 0
    /\ search_result = <<>>
    /\ book_chunks = <<>>
    /\ mcp_context = <<>>
    /\ mcp_calls = <<>>
    /\ mcp_raised = {}
    /\ fetch_failed = {}
    /\ combined_context = NoContext
    /\ gen_calls = 0
    /\ response = NoResponse
    /\ error = ""
    /\ collection_size = 0
    /\ IdleIngest

query_books == request.source \in {"books", "both", "all"}

query_compliance == request.source \in {"compliance", "both", "all"}

query_mslearn == request.source \in {"mslearn", "all"}

\* lines 70-71 with _retrieve_book_chunks: size, embed, search, neighbor fetch
RetrieveBookChunks ==
    /\ pc = "start"
    /\ UNCHANGED xvars
    /\ UNCHANGED ivars
    /\ UNCHANGED <<request, neighbor_window, has_mcp_manager, mcp_context,
                   mcp_calls, mcp_raised, combined_context, gen_calls, response>>
    /\ IF ~query_books
       THEN /\ pc' = "compliance"
            /\ UNCHANGED <<store, top_k, search_result, book_chunks, fetch_failed,
                           error, collection_size>>
       ELSE \E fault \in {"none", "embedding", "vector_index"} :
            IF fault # "none"
            THEN /\ pc' = "error"
                 /\ error' = fault
                 /\ UNCHANGED <<store, top_k, search_result, book_chunks,
                                fetch_failed, collection_size>>
            ELSE LET size == GetCollectionSize(store, request.session_id)
                     k == ComputeTopK(request, size)
                 IN \E found \in SearchResults(store, request.session_id, k) :
                    \E failed \in SUBSET Range(BooksInOrder(found)) :
                       /\ neighbor_window = 0 => failed = {}
                       /\ store' = StoreAfterRead(store, request.session_id)
                       /\ collection_size' = size
                       /\ top_k' = k
                       /\ search_result' = found
                       /\ fetch_failed' = failed
                       /\ book_chunks' =
                            IF neighbor_window > 0
                            THEN GetNeighborChunks(store, found, request.session_id,
                                                   neighbor_window, failed)
                            ELSE found
                       /\ pc' = "compliance"
                       /\ UNCHANGED error

\* one "if query_x: ctx = await self._retrieve_mcp_context(x, request)" block
RetrieveSource(source, selected, nextPc) ==
    /\ UNCHANGED xvars
    /\ UNCHANGED ivars
    /\ UNCHANGED <<store, request, neighbor_window, has_mcp_manager, top_k,
                   search_result, book_chunks, fetch_failed, combined_context,
                   gen_calls, response, collection_size>>
    /\ IF ~selected
       THEN /\ pc' = nextPc
            /\ UNCHANGED <<mcp_context, mcp_calls, mcp_raised, error>>
       ELSE \E outcome \in ExternalOutcomes(source) :
            LET r == RetrieveMcpContext(has_mcp_manager, outcome)
            IN /\ has_mcp_manager \/ ~outcome.raises
               /\ has_mcp_manager \/ outcome.context = <<>>
               /\ mcp_calls' = IF r.called THEN Append(mcp_calls, source) ELSE mcp_calls
               /\ mcp_raised' = IF r.called /\ outcome.raises
                                THEN mcp_raised \cup {source} ELSE mcp_raised
               /\ IF r.propagates
                  THEN /\ pc' = "error"
                       /\ error' = "external"
                       /\ UNCHANGED mcp_context
                  ELSE /\ pc' = nextPc
                       /\ mcp_context' = mcp_context \o r.context
                       /\ UNCHANGED error

\* lines 74-76
RetrieveCompliance ==
    /\ pc = "compliance"
    /\ RetrieveSource("compliance", query_compliance, "mslearn")

\* lines 78-80
RetrieveMslearn ==
    /\ pc = "mslearn"
    /\ RetrieveSource("mslearn", query_mslearn, "fuse")

\* lines 83-84
Fuse ==
    /\ pc = "fuse"
    /\ UNCHANGED xvars
    /\ combined_context' = CombineContext(BuildEnhancedChunks(book_chunks), mcp_context)
    /\ pc' = "generate"
    /\ UNCHANGED ivars
    /\ UNCHANGED <<store, request, neighbor_window, has_mcp_manager, top_k,
                   search_result, book_chunks, mcp_context, mcp_calls, mcp_raised,
                   fetch_failed, gen_calls, response, error, collection_size>>

\* lines 87-100: generate raises LLMConnectionError or returns the answer
Generate ==
    /\ pc = "generate"
    /\ UNCHANGED xvars
    /\ gen_calls' = gen_calls + 1
    /\ UNCHANGED ivars
    /\ \E ok \in BOOLEAN :
         IF ok
         THEN /\ response' = [answer |-> "answer",
                              sources |-> ResponseSources(search_result, book_chunks)]
              /\ pc' = "done"
              /\ UNCHANGED error
         ELSE /\ pc' = "error"
              /\ error' = "llm_connection"
              /\ UNCHANGED response
    /\ UNCHANGED <<store, request, neighbor_window, has_mcp_manager, top_k,
                   search_result, book_chunks, mcp_context, mcp_calls, mcp_raised,
                   fetch_failed, combined_context, collection_size>>

NextQuery ==
    \/ RetrieveBookChunks
    \/ RetrieveCompliance
    \/ RetrieveMslearn
    \/ Fuse
    \/ Generate

SpecQuery == InitQuery /\ [][NextQuery]_vars

\* ------------------------------------------------------------------------
\* Claims about query()
\* ------------------------------------------------------------------------
Fused == combined_context.kind # "none"

IdsOf(cks) == {cks[i].id : i \in DOMAIN cks}

\* the strings f"{content}{suffix}" that can stand for chunk c
LocalStringsOf(c) ==
    {c.content,
     c.content \o " [Chapter: " \o c.chapter \o "]",
     c.content \o " [Page " \o ToString(c.page_number) \o "]",
     c.content \o " [Chapter: " \o c.chapter \o ", Page " \o ToString(c.page_number) \o "]"}

\* C1: fusion. With no external context the local chunk objects are passed
\* through unchanged; with external context and no local chunks the external
\* strings are passed through unchanged; with both, the result is a list of
\* strings, the external ones first in their order, then one string per local
\* chunk in the chunks' order.
C1_Fusion ==
    Fused =>
      LET local == BuildEnhancedChunks(book_chunks)
          ext == mcp_context
          out == combined_context
      IN /\ ext = <<>> => out.kind = "chunks" /\ out.items = local
         /\ (ext # <<>> /\ local = <<>>) => out.kind = "strings" /\ out.items = ext
         /\ (ext # <<>> /\ local # <<>>) =>
              /\ out.kind = "strings"
              /\ Len(out.items) = Len(ext) + Len(local)
              /\ \A i \in 1..Len(ext) : out.items[i] = ext[i]
              /\ \A j \in 1..Len(local) :
                    out.items[Len(ext) + j] \in LocalStringsOf(local[j])

C1_Witness ==
    /\ Fused
    /\ Len(mcp_context) >= 2
    /\ Len(book_chunks) >= 2
    /\ combined_context.kind = "strings"

\* C2: an external source whose search_context raises contributes nothing and
\* stops nothing: the step that sees the exception goes on to the next step
\* with the context gathered so far untouched, no error of query() is ever the
\* external failure, and a query that completes has called the generator once
\* with the fused context of the local chunks and the healthy sources.
C2_ExternalFailureAbsorbed ==
    /\ [][mcp_raised' # mcp_raised =>
            /\ pc' \in {"mslearn", "fuse"}
            /\ mcp_context' = mcp_context
            /\ book_chunks' = book_chunks
            /\ error' = ""]_vars
    /\ [](error # "external")
    /\ []((mcp_raised # {} /\ pc = "done") =>
            /\ gen_calls = 1
            /\ response.answer = "answer"
            /\ Len(combined_context.items) = Len(book_chunks) + Len(mcp_context))

C2_Witness ==
    /\ pc = "done"
    /\ mcp_raised = {"compliance"}
    /\ mcp_calls = <<"compliance", "mslearn">>
    /\ Len(mcp_context) > 0
    /\ Len(book_chunks) > 0

\* C3: with local retrieval and a neighbor window > 0 the response's sources
\* are exactly the list search returned, and the generator's context is built
\* from the neighbor-expanded list.
C3_SourcesArePrimaryMatches ==
    (pc = "done" /\ query_books /\ neighbor_window > 0) =>
        /\ response.sources = search_result
        /\ Len(combined_context.items) = Len(book_chunks) + Len(mcp_context)

\* C4: for window >= 1 and chunks returned by search on an existing
\* collection, get_neighbor_chunks returns every input chunk, no chunk id
\* twice, in ascending (document id, sequence_number) order, and no negative
\* sequence number.
C4_NeighborExpansion ==
    (pc \notin {"start", "error"} /\ query_books /\ neighbor_window >= 1
        /\ SanitizeCollectionName(request.session_id) \in DOMAIN store) =>
        /\ IdsOf(search_result) \subseteq IdsOf(book_chunks)
        /\ \A i, j \in DOMAIN book_chunks : i < j =>
              /\ book_chunks[i].id # book_chunks[j].id
              /\ ~KeyLess(book_chunks[j], book_chunks[i])
        /\ \A i \in DOMAIN book_chunks : book_chunks[i].sequence_number >= 0

\* the same property of the calls in which no per-document fetch failed
C4_NeighborExpansionWithoutFetchFailure ==
    fetch_failed = {} => C4_NeighborExpansion

\* ------------------------------------------------------------------------
\* Adaptive top-k over collection sizes a query-time index can have
\* ------------------------------------------------------------------------

\* retrieval_percentage is bounded to 0.5 .. 10.0 by ChatRequest; in half percents
HalfPercents == 1..20

CollectionSizes == 0..MaxCollectionSize \cup {10000}

InitTopK ==
    /\ IdleExtras
    /\ store = <<>>
    /\ request \in [query : {"q"}, session_id : {SessionS1}, source : {"books"},
                    top_k : 1..MaxTopK,
                    retrieval_percentage : {NoneInt} \cup HalfPercents]
    /\ collection_size \in CollectionSizes
    /\ neighbor_window = 0
    /\ has_mcp_manager = FALSE
    /\ pc = "topk_start"
    /\ top_k = 0
    /\ search_result = <<>>
    /\ book_chunks = <<>>
    /\ mcp_context = <<>>
    /\ mcp_calls = <<>>
    /\ mcp_raised = {}
    /\ fetch_failed = {}
    /\ combined_context = NoContext
    /\ gen_calls = 0
    /\ response = NoResponse
    /\ error = ""
    /\ IdleIngest

\* _retrieve_book_chunks lines 105-114 for the size get_collection_size reported
CalculateTopK ==
    /\ pc = "topk_start"
    /\ UNCHANGED xvars
    /\ top_k' = ComputeTopK(request, collection_size)
    /\ pc' = "topk_done"
    /\ UNCHANGED ivars
    /\ UNCHANGED <<store, request, neighbor_window, has_mcp_manager, search_result,
                   book_chunks, mcp_context, mcp_calls, mcp_raised, fetch_failed,
                   combined_context, gen_calls, response, error, collection_size>>

NextTopK == CalculateTopK

SpecTopK == InitTopK /\ [][NextTopK]_vars

Clamp(x, lo, hi) == IF x < lo THEN lo ELSE IF x > hi THEN hi ELSE x

\* round(n / d), halves to the even neighbour
RoundDiv(n, d) ==
    LET q == CHOOSE k \in 0..n : d * k <= n /\ n < d * (k + 1)
    IN IF 2 * (n - d * q) < d THEN q
       ELSE IF 2 * (n - d * q) > d THEN q + 1
       ELSE IF q % 2 = 0 THEN q ELSE q + 1

\* C5 as stated: with a retrieval percentage p, top_k is 5 for an empty
\* collection and otherwise clamp(round(collection_size * p / 100), 5, 100);
\* without a percentage it is the request's literal top_k.
C5_RoundedTopK ==
    pc = "topk_done" =>
        top_k = IF request.retrieval_percentage = NoneInt THEN request.top_k
                ELSE IF collection_size = 0 THEN 5
                ELSE Clamp(RoundDiv(collection_size * request.retrieval_percentage, 200),
                           5, 100)

\* C5 amended: with a retrieval percentage p, top_k is 5 for an empty
\* collection and otherwise clamp(t, 5, 100) where t is collection_size * p / 100
\* truncated to an integer (the largest t with t * 100 <= collection_size * p);
\* size 1000 at 1.0 gives 10, size 10 at 10.0 gives 5, size 10000 at 10.0 gives
\* 100; without a percentage it is the request's literal top_k.
C5_TruncatedTopK ==
    pc = "topk_done" =>
        LET hp == request.retrieval_percentage
            n == collection_size * hp
        IN /\ hp = NoneInt => top_k = request.top_k
           /\ (hp # NoneInt /\ collection_size = 0) => top_k = 5
           /\ (hp # NoneInt /\ collection_size > 0) =>
                \E t \in 0..n : /\ 200 * t <= n
                                /\ n < 200 * (t + 1)
                                /\ top_k = Clamp(t, 5, 100)
           /\ (hp = 2 /\ collection_size = 1000) => top_k = 10
           /\ (hp = 20 /\ collection_size = 10) => top_k = 5
           /\ (hp = 20 /\ collection_size = 10000) => top_k = 100

\* size 660 at 1.0 percent: 6.6 is truncated to 6, where rounding gives 7
C5_Witness ==
    /\ pc = "topk_done"
    /\ collection_size = 660
    /\ request.retrieval_percentage = 2
    /\ top_k = 6

\* ------------------------------------------------------------------------
\* TextChunker (src/parsers/chunker.py).  A text is a sequence of characters;
\* offsets are Python's, from 0.
\* ------------------------------------------------------------------------
NL == "\n"

BT == "BACKTICK"

Whitespace == {" ", NL}

\* the letters of the model's alphabet (\w)
WordChars == {"a", "b", "c", "d", "e", "k", "l", "o", "p", "x", "y"}

Fence == <<BT, BT, BT>>

\* ".. code-block::"
Directive == <<".", ".", " ", "c", "o", "d", "e", "-", "b", "l", "o", "c", "k", ":", ":">>

\* t[o] for an offset inside t, a character that matches nothing outside
At(t, o) == IF o >= 0 /\ o < Len(t) THEN t[o + 1] ELSE "EOT"

\* t starts with p at offset o
HasAt(t, o, p) == \A k \in 1..Len(p) : At(t, o + k - 1) = p[k]

\* Python's t[i:j], negative indices counted from the end
PySlice(t, i, j) ==
    LET n == Len(t)
        lo == IF i < 0 THEN Max(i + n, 0) ELSE Min(i, n)
        hi == IF j < 0 THEN Max(j + n, 0) ELSE Min(j, n)
    IN IF lo >= hi THEN <<>> ELSE SubSeq(t, lo + 1, hi)

\* str.strip()
RECURSIVE LStrip(_)
LStrip(t) == IF t # <<>> /\ t[1] \in Whitespace THEN LStrip(Tail(t)) ELSE t

RECURSIVE RStrip(_)
RStrip(t) ==
    IF t # <<>> /\ t[Len(t)] \in Whitespace THEN RStrip(SubSeq(t, 1, Len(t) - 1)) ELSE t

\* lstrip() in place of strip()
Strip_LeftOnly(t) == LStrip(t)

Strip(t) == RStrip(LStrip(t))

\* length of the run of characters of class S starting at offset o
RECURSIVE RunLength(_, _, _)
RunLength(t, o, S) == IF At(t, o) \in S THEN 1 + RunLength(t, o + 1, S) ELSE 0

\* "None" for an empty language group
LangOf(t, o, n) == IF n = 0 THEN <<>> ELSE SubSeq(t, o + 1, o + n)

\* offset of the first "\n```" at or after offset o, -1 when there is none
FindClosing(t, o) ==
    LET hits == {q \in o..(Len(t) - 1) : HasAt(t, q, <<NL>> \o Fence)}
    IN IF hits = {} THEN -1 ELSE Least(hits)

\* re.match of ```(\w*)\n(.*?)\n``` at offset o: the end offset, -1 for no match
MarkdownMatchEnd(t, o) ==
    LET w == RunLength(t, o + 3, WordChars)
        close == FindClosing(t, o + 3 + w + 1)
    IN IF HasAt(t, o, Fence) /\ At(t, o + 3 + w) = NL /\ close # -1
       THEN close + 4
       ELSE -1

\* re.finditer over the markdown pattern from offset o
RECURSIVE MarkdownBlocks(_, _)
MarkdownBlocks(t, o) ==
    LET starts == {q \in o..(Len(t) - 1) : MarkdownMatchEnd(t, q) # -1}
    IN IF starts = {} THEN <<>>
       ELSE LET s0 == Least(starts)
                e == MarkdownMatchEnd(t, s0)
            IN <<[start |-> s0, end |-> e,
                  lang |-> LangOf(t, s0 + 3, RunLength(t, s0 + 3, WordChars))]>>
               \o MarkdownBlocks(t, e)

\* \s*(\w*)\n\n followed by four spaces, \s* having taken n characters
RstTailMatches(t, o, n) ==
    LET w == RunLength(t, o + n, WordChars)
    IN HasAt(t, o + n + w, <<NL, NL, " ", " ", " ", " ">>)

\* the longest \s* prefix (greedy, backtracking) with which the rest matches
RECURSIVE RstSpaces(_, _, _)
RstSpaces(t, o, n) ==
    IF n < 0 THEN -1
    ELSE IF RstTailMatches(t, o, n) THEN n
    ELSE RstSpaces(t, o, n - 1)

\* re.finditer over \.\. code-block::\s*(\w*)\n\n((?:    .*\n?)+) with DOTALL:
\* the greedy .* runs to the end of the text, so the first match is the only one
RstBlocks(t, o) ==
    LET Spaces(q) == RstSpaces(t, q + Len(Directive),
                               RunLength(t, q + Len(Directive), Whitespace))
        starts == {q \in o..(Len(t) - 1) : HasAt(t, q, Directive) /\ Spaces(q) # -1}
    IN IF starts = {} THEN <<>>
       ELSE LET s0 == Least(starts)
                after == s0 + Len(Directive) + Spaces(s0)
            IN <<[start |-> s0, end |-> Len(t),
                  lang |-> LangOf(t, after, RunLength(t, after, WordChars))]>>

\* sorted(code_blocks, key=start): stable merge of the two sorted lists
RECURSIVE MergeByStart(_, _)
MergeByStart(a, b) ==
    IF a = <<>> THEN b
    ELSE IF b = <<>> THEN a
    ELSE IF b[1].start < a[1].start THEN <<b[1]>> \o MergeByStart(a, Tail(b))
    ELSE <<a[1]>> \o MergeByStart(Tail(a), b)

\* _detect_code_blocks
DetectCodeBlocks(t) == MergeByStart(MarkdownBlocks(t, 0), RstBlocks(t, 0))

\* _is_inside_code_block
IsInsideCodeBlock(pos, blocks) ==
    \E k \in DOMAIN blocks : blocks[k].start <= pos /\ pos < blocks[k].end

\* the first block, in list order, that holds pos
FirstBlockAt(pos, blocks) ==
    blocks[CHOOSE k \in DOMAIN blocks :
              /\ blocks[k].start <= pos /\ pos < blocks[k].end
              /\ \A j \in 1..(k - 1) : ~(blocks[j].start <= pos /\ pos < blocks[j].end)]

\* lines 96-104: end moved to the block's end when the block fits from s0
\* within 1.5 x chunk_size, to the block's start otherwise
CodeBlockEnd(s0, e0, blocks, size) ==
    LET b == FirstBlockAt(e0, blocks)
    IN IF 2 * (b.end - s0) <= 3 * size THEN b.end ELSE b.start

\* str.rfind of a two-character boundary: highest offset in region, -1 if none
RFind(region, boundary) ==
    LET hits == {k \in 0..(Len(region) - 2) : HasAt(region, k, boundary)}
    IN IF hits = {} THEN -1 ELSE CHOOSE k \in hits : \A j \in hits : j <= k

SentenceBoundaries == <<<<".", " ">>, <<".", NL>>, <<"?", " ">>, <<"!", " ">>>>

\* lines 107-115: the first boundary kind, in list order, found in the last
\* int(chunk_size * 0.2) characters moves end to just after its punctuation
SentenceEnd(t, e0, size) ==
    LET search_start == e0 - (size \div 5)
        region == PySlice(t, search_start, e0)
        found == {k \in DOMAIN SentenceBoundaries : RFind(region, SentenceBoundaries[k]) # -1}
    IN IF found = {} THEN e0
       ELSE LET k == CHOOSE x \in found : \A y \in found : x <= y
            IN search_start + RFind(region, SentenceBoundaries[k]) + 1

\* lines 89-115: the end of the window that starts at s0
WindowEnd(t, s0, blocks, size) ==
    LET e0 == s0 + size
    IN IF e0 < Len(t)
       THEN IF IsInsideCodeBlock(e0, blocks)
            THEN CodeBlockEnd(s0, e0, blocks, size)
            ELSE SentenceEnd(t, e0, size)
       ELSE e0

\* lines 120-133: has_code and code_language of the window [s0, e0)
Intersecting(s0, e0, blocks) ==
    SelectSeq(blocks, LAMBDA b : b.start < e0 /\ b.end > s0)

CodeLanguage(s0, e0, blocks) ==
    LET withLang == SelectSeq(Intersecting(s0, e0, blocks), LAMBDA b : b.lang # <<>>)
    IN IF withLang = <<>> THEN <<>> ELSE withLang[1].lang

\* the overlap added instead of subtracted
NextStart_Forward(t, e0, overlap) == IF e0 < Len(t) THEN e0 + overlap ELSE e0

\* line 138: the next window start
NextStart(t, e0, overlap) == IF e0 < Len(t) THEN e0 - overlap ELSE e0

\* lines 77-83: the single chunk of a text that fits in chunk_size
SingleChunk(t, blocks, page) ==
    [text |-> t, start |-> 0, end |-> Len(t),
     has_code |-> Len(blocks) > 0,
     code_language |-> IF Len(blocks) > 0 THEN blocks[1].lang ELSE <<>>,
     page_number |-> page]

\* line 77: the text bypasses windowing
FitsInOneChunk(t, size) == Len(t) <= size

\* ------------------------------------------------------------------------
\* chunk_hierarchical and ingest_book
\* ------------------------------------------------------------------------

\* "\n\n".join(parent_texts)
RECURSIVE Join(_)
Join(texts) ==
    IF texts = <<>> THEN <<>>
    ELSE IF Len(texts) = 1 THEN texts[1]
    ELSE texts[1] \o <<NL, NL>> \o Join(Tail(texts))

\* lines 167-173: the texts of the parent group of child i (from 0)
ParentTexts(children, i, cpp) ==
    LET parent_start == (i \div cpp) * cpp
        parent_end == Min(parent_start + cpp, Len(children))
    IN [j \in 1..(parent_end - parent_start) |-> children[parent_start + j].text]

\* line 176: parent_id = uuid4(), drawn once for every child
ParentChunkId(i, cpp, drawn) == drawn + i + 1

\* lines 165-184: the children with their hierarchical metadata
Hierarchical(children, cpp, drawn) ==
    [k \in DOMAIN children |->
        [text |-> children[k].text,
         start |-> children[k].start,
         end |-> children[k].end,
         has_code |-> children[k].has_code,
         code_language |-> children[k].code_language,
         page_number |-> children[k].page_number,
         sequence_number |-> k - 1,
         parent_chunk_id |-> ParentChunkId(k - 1, cpp, drawn),
         parent_content |-> Join(ParentTexts(children, k - 1, cpp))]]

\* ingest_book lines 96-112 and add_chunks lines 42-57: the stored rows
ChunkRows(data, book, drawn) ==
    [k \in DOMAIN data |->
        [id |-> drawn + k,
         book_id |-> book,
         document |-> data[k].text,
         page_number |-> IF data[k].page_number \in {NoneInt, 0} THEN -1
                         ELSE data[k].page_number,
         chapter |-> "",
         sequence_number |-> data[k].sequence_number,
         parent_chunk_id |-> data[k].parent_chunk_id,
         parent_content |-> data[k].parent_content]]

\* add_chunks: nothing for an empty list, otherwise get_or_create and add
AddChunks(st, rows, cid) ==
    LET name == SanitizeCollectionName(cid)
    IN IF rows = <<>> THEN st
       ELSE IF name \in DOMAIN st THEN [st EXCEPT ![name] = st[name] \o rows]
       ELSE [c \in DOMAIN st \cup {name} |-> IF c = name THEN rows ELSE st[c]]

\* TextChunker.__init__ default of children_per_parent
ChildrenPerParent == 3

\* ---- the documents of the model: texts made of a few fragments ----
Word == <<"a", "a", "a", "a", "a", "a">>

Para == <<"a", "a", "a", "a", "a", "a", "a", "a", "a", "a", "a", "a", "a">>

Sentence == <<"b", "b", ".", " ">>

Blank == <<" ", NL>>

\* a fenced block of 12 characters with a sentence break inside
SmallBlock == Fence \o <<NL, "c", ".", " ", "d", NL>> \o Fence

\* a fenced block of 20 characters, more than 1.5 x ModelChunkSize
BigBlock == Fence \o <<"p", "y", NL, "c", "c", "c", "c", "c", "c", "c", "c", "c", "c", NL>> \o Fence

\* an indented literal block
RstBlock == Directive \o <<NL, NL, " ", " ", " ", " ", "x">>

Fragments == {Word, Para, Sentence, Blank, SmallBlock, BigBlock, RstBlock}

\* texts made of exactly n fragments
RECURSIVE TextsOf(_)
TextsOf(n) ==
    IF n = 0 THEN {<<>>}
    ELSE {t \o f : t \in TextsOf(n - 1), f \in Fragments}

\* the ways to split at most n fragments over k segments
RECURSIVE Splits(_, _)
Splits(n, k) ==
    IF k = 0 THEN {<<>>}
    ELSE UNION {{<<m>> \o r : r \in Splits(n - m, k - 1)} : m \in 0..n}

RECURSIVE SegmentsOf(_)
SegmentsOf(split) ==
    IF split = <<>> THEN {<<>>}
    ELSE {<<t>> \o r : t \in TextsOf(split[1]), r \in SegmentsOf(Tail(split))}

\* what parser.extract_text returns: 1..MaxSegments texts, page k for the k-th
Documents ==
    UNION {SegmentsOf(sp) : sp \in UNION {Splits(MaxParts, k) : k \in 1..MaxSegments}}

IdleQuery ==
    /\ request = [query |-> "q", session_id |-> SessionS1, source |-> "books",
                  top_k |-> 1, retrieval_percentage |-> NoneInt]
    /\ neighbor_window = 0
    /\ has_mcp_manager = FALSE
    /\ top_k = 0
    /\ search_result = <<>>
    /\ book_chunks = <<>>
    /\ mcp_context = <<>>
    /\ mcp_calls = <<>>
    /\ mcp_raised = {}
    /\ fetch_failed = {}
    /\ combined_context = NoContext
    /\ gen_calls = 0
    /\ response = NoResponse
    /\ error = ""

\* ingest_book after validation and parsing, at line 74
InitIngest ==
    /\ IdleExtras
    /\ store = <<>>
    /\ collection_size = 0
    /\ IdleQuery
    /\ pc = "ingest"
    /\ chunker \in [chunk_size : {ModelChunkSize}, overlap : 0..MaxOverlap,
                    children_per_parent : {ChildrenPerParent}]
    /\ segments \in Documents
    /\ seg_index = 1
    /\ text = <<>>
    /\ code_blocks = <<>>
    /\ start = 0
    /\ chunks = <<>>
    /\ child_chunks = <<>>
    /\ all_chunks_data = <<>>
    /\ next_uuid = 0

\* ingest_book line 76 -> chunk_hierarchical line 157 -> chunk lines 68-86
BeginSegment ==
    /\ pc = "ingest"
    /\ UNCHANGED xvars
    /\ seg_index <= Len(segments)
    /\ LET stripped == Strip(segments[seg_index])
           blocks == DetectCodeBlocks(stripped)
       IN /\ text' = stripped
          /\ code_blocks' = blocks
          /\ start' = 0
          /\ chunks' = <<>>
          /\ IF stripped = <<>>
             THEN /\ child_chunks' = <<>>
                  /\ pc' = "group"
             ELSE IF FitsInOneChunk(stripped, chunker.chunk_size)
             THEN /\ child_chunks' = <<SingleChunk(stripped, blocks, seg_index)>>
                  /\ pc' = "group"
             ELSE /\ child_chunks' = <<>>
                  /\ pc' = "window"
    /\ UNCHANGED <<store, qvars_but_pc, collection_size, chunker, segments, seg_index,
                   all_chunks_data, next_uuid>>

\* one iteration of the while loop, lines 88-138
WindowStep ==
    /\ pc = "window"
    /\ UNCHANGED xvars
    /\ start < Len(text)
    /\ Len(chunks) < MaxChunks
    /\ LET e == WindowEnd(text, start, code_blocks, chunker.chunk_size)
           chunk_text == Strip(PySlice(text, start, e))
       IN /\ chunks' =
               IF chunk_text # <<>>
               THEN Append(chunks,
                      [text |-> chunk_text, start |-> start, end |-> e,
                       has_code |-> Intersecting(start, e, code_blocks) # <<>>,
                       code_language |-> CodeLanguage(start, e, code_blocks),
                       page_number |-> seg_index])
               ELSE chunks
          /\ start' = NextStart(text, e, chunker.overlap)
    /\ UNCHANGED <<store, qvars, collection_size, chunker, segments, seg_index, text,
                   code_blocks, child_chunks, all_chunks_data, next_uuid>>

\* the loop condition fails: line 140
ReturnChunks ==
    /\ pc = "window"
    /\ UNCHANGED xvars
    /\ start >= Len(text)
    /\ child_chunks' = chunks
    /\ pc' = "group"
    /\ UNCHANGED <<store, qvars_but_pc, collection_size, chunker, segments, seg_index,
                   text, code_blocks, start, chunks, all_chunks_data, next_uuid>>

\* chunk_hierarchical lines 159-186 and ingest_book line 77
GroupChildren ==
    /\ pc = "group"
    /\ UNCHANGED xvars
    /\ all_chunks_data' = all_chunks_data
            \o Hierarchical(child_chunks, chunker.children_per_parent, next_uuid)
    /\ next_uuid' = next_uuid + Len(child_chunks)
    /\ seg_index' = seg_index + 1
    /\ pc' = "ingest"
    /\ UNCHANGED <<store, qvars_but_pc, collection_size, chunker, segments, text,
                   code_blocks, start, chunks, child_chunks>>

\* ingest_book lines 80-117: the Chunk entities are created and stored
StoreChunks ==
    /\ pc = "ingest"
    /\ UNCHANGED xvars
    /\ seg_index > Len(segments)
    /\ store' = AddChunks(store, ChunkRows(all_chunks_data, next_uuid + 1, next_uuid + 1),
                          request.session_id)
    /\ next_uuid' = next_uuid + 1 + Len(all_chunks_data)
    /\ pc' = "ingested"
    /\ UNCHANGED <<qvars_but_pc, collection_size, chunker, segments, seg_index, text,
                   code_blocks, start, chunks, child_chunks, all_chunks_data>>

NextIngest ==
    \/ BeginSegment
    \/ WindowStep
    \/ ReturnChunks
    \/ GroupChildren
    \/ StoreChunks

SpecIngest == InitIngest /\ [][NextIngest]_vars

\* ------------------------------------------------------------------------
\* Claims about the chunker and ingestion
\* ------------------------------------------------------------------------

\* chunk() has returned child_chunks for the text of the current segment
ChunkReturned == pc = "group"

\* chunk_hierarchical has returned for segment seg_index - 1: its output is
\* the tail of all_chunks_data
Grouped == pc = "ingest" /\ seg_index > 1

LastOutput ==
    SubSeq(all_chunks_data, Len(all_chunks_data) - Len(child_chunks) + 1,
           Len(all_chunks_data))

\* the offsets of the window slice text[start:end] that strip() keeps
SliceLo(c) == IF c.start < 0 THEN Max(c.start + Len(text), 0) ELSE Min(c.start, Len(text))

SliceHi(c) == IF c.end < 0 THEN Max(c.end + Len(text), 0) ELSE Min(c.end, Len(text))

KeptLo(c) == SliceLo(c) + RunLength(text, SliceLo(c), Whitespace)

KeptHi(c) == KeptLo(c) + Len(c.text)

\* C6: in the output of chunk_hierarchical two children have the same
\* parent_chunk_id exactly when they are in the same group of
\* children_per_parent consecutive children, and a child's parent_content is
\* the join of the texts of exactly the children sharing its parent_chunk_id,
\* whose sequence numbers are contiguous.
C6_ParentGroups ==
    Grouped =>
      LET out == LastOutput
          cpp == chunker.children_per_parent
          Sharing(i) == {j \in DOMAIN out : out[j].parent_chunk_id = out[i].parent_chunk_id}
          Lowest(S) == CHOOSE x \in S : \A y \in S : x <= y
      IN \A i \in DOMAIN out :
           /\ \A j \in DOMAIN out :
                 ((i - 1) \div cpp = (j - 1) \div cpp)
                    <=> (out[i].parent_chunk_id = out[j].parent_chunk_id)
           /\ Sharing(i) = Lowest(Sharing(i))..(Lowest(Sharing(i)) + Cardinality(Sharing(i)) - 1)
           /\ {out[j].sequence_number : j \in Sharing(i)}
                 = {j - 1 : j \in Sharing(i)}
           /\ out[i].parent_content
                 = Join([k \in 1..Cardinality(Sharing(i)) |->
                            out[Lowest(Sharing(i)) + k - 1].text])

\* C7: the chunks stored for an ingested document have pairwise distinct
\* sequence numbers that strictly increase in emission order.
C7_SequenceNumbersIncrease ==
    (pc = "ingested" /\ SanitizeCollectionName(request.session_id) \in DOMAIN store) =>
        LET rows == store[SanitizeCollectionName(request.session_id)]
        IN \A i, j \in DOMAIN rows :
              i < j => rows[i].sequence_number < rows[j].sequence_number

\* a span that cannot be included whole within 1.5 x chunk_size, by itself
\* or from the start of the chunk that meets it
Oversized(b, c) ==
    \/ 2 * (b.end - b.start) > 3 * chunker.chunk_size
    \/ 2 * (b.end - c.start) > 3 * chunker.chunk_size

\* C8: no chunk returned by chunk() starts or ends strictly inside a detected
\* code span, unless the span is oversized.
C8_CodeBlockIntegrity ==
    ChunkReturned =>
        \A i \in DOMAIN child_chunks : \A k \in DOMAIN code_blocks :
            LET c == child_chunks[i]
                b == code_blocks[k]
            IN ~Oversized(b, c) =>
                 /\ ~(b.start < c.start /\ c.start < b.end)
                 /\ ~(b.start < c.end /\ c.end < b.end)

MultiWindow == ChunkReturned /\ ~FitsInOneChunk(text, chunker.chunk_size)

\* C9 as stated: for a text that needs more than one window the texts of the
\* returned chunks cover every character of the text, so that nothing is
\* dropped when they are put together.
C9_LosslessCoverage ==
    MultiWindow =>
        \A o \in 0..(Len(text) - 1) :
            \E i \in DOMAIN child_chunks :
                KeptLo(child_chunks[i]) <= o /\ o < KeptHi(child_chunks[i])

\* C9 amended: for a text that needs more than one window, every chunk
\* returned is the text of its window with the whitespace at its two ends
\* stripped, and every character of the text that is not whitespace lies in
\* such a chunk; only whitespace at the edges of a window is dropped.
C9_NonWhitespaceCoverage ==
    MultiWindow =>
        /\ \A i \in DOMAIN child_chunks :
              LET c == child_chunks[i]
              IN /\ c.text # <<>>
                 /\ SliceLo(c) <= KeptLo(c) /\ KeptHi(c) <= SliceHi(c)
                 /\ \A k \in 1..Len(c.text) : c.text[k] = At(text, KeptLo(c) + k - 1)
                 /\ \A o \in SliceLo(c)..(SliceHi(c) - 1) :
                       (o < KeptLo(c) \/ o >= KeptHi(c)) => At(text, o) \in Whitespace
        /\ \A o \in 0..(Len(text) - 1) :
              At(text, o) \notin Whitespace =>
                 \E i \in DOMAIN child_chunks :
                    KeptLo(child_chunks[i]) <= o /\ o < KeptHi(child_chunks[i])

\* three windows, and whitespace at a window edge that no chunk keeps
C9_Witness ==
    /\ MultiWindow
    /\ Len(child_chunks) >= 3
    /\ chunker.overlap > 0
    /\ \E o \in 0..(Len(text) - 1) :
          /\ At(text, o) \in Whitespace
          /\ \A i \in DOMAIN child_chunks :
                ~(KeptLo(child_chunks[i]) <= o /\ o < KeptHi(child_chunks[i]))

\* t is whitespace, then core, then whitespace
IsStripOf(core, t) ==
    /\ core # <<>>
    /\ core[1] \notin Whitespace
    /\ core[Len(core)] \notin Whitespace
    /\ \E a \in 0..Len(t) :
          /\ a + Len(core) <= Len(t)
          /\ SubSeq(t, a + 1, a + Len(core)) = core
          /\ \A k \in 1..a : t[k] \in Whitespace
          /\ \A k \in (a + Len(core) + 1)..Len(t) : t[k] \in Whitespace

WhitespaceOnly(t) == \A k \in DOMAIN t : t[k] \in Whitespace

\* len(t.strip()) counted on t itself
StrippedLength(t) ==
    LET solid == {k \in DOMAIN t : t[k] \notin Whitespace}
    IN IF solid = {} THEN 0
       ELSE (CHOOSE x \in solid : \A y \in solid : y <= x)
              - (CHOOSE x \in solid : \A y \in solid : x <= y) + 1

\* C10: chunk() returns no chunk for an empty or whitespace-only text and
\* exactly one chunk, whose text is the stripped text, for any other text of
\* stripped length at most chunk_size; chunk_hierarchical then returns that
\* child with sequence number 0, its own text as parent_content and a
\* parent_chunk_id no other chunk of the document has.
C10_SmallTexts ==
    /\ ChunkReturned =>
         LET raw == segments[seg_index]
         IN /\ WhitespaceOnly(raw) => child_chunks = <<>>
            /\ (~WhitespaceOnly(raw) /\ StrippedLength(raw) <= chunker.chunk_size) =>
                 /\ Len(child_chunks) = 1
                 /\ IsStripOf(child_chunks[1].text, raw)
    /\ Grouped =>
         LET raw == segments[seg_index - 1]
             out == LastOutput
         IN /\ WhitespaceOnly(raw) => out = <<>>
            /\ (~WhitespaceOnly(raw) /\ StrippedLength(raw) <= chunker.chunk_size) =>
                 /\ Len(out) = 1
                 /\ IsStripOf(out[1].text, raw)
                 /\ out[1].sequence_number = 0
                 /\ out[1].parent_content = out[1].text
                 /\ \A k \in 1..(Len(all_chunks_data) - 1) :
                       all_chunks_data[k].parent_chunk_id # out[1].parent_chunk_id

\* a short text with whitespace around it, chunked and grouped
C10_Witness ==
    /\ Grouped
    /\ seg_index = 2
    /\ segments[1] = Blank \o Word \o Blank
    /\ Len(child_chunks) = 1
    /\ Len(all_chunks_data) = 1
    /\ LastOutput[1].text = Word
    /\ LastOutput[1].sequence_number = 0

\* ------------------------------------------------------------------------
\* Scenario: one Markdown document of 3000 characters is ingested with
\* TextChunker(chunk_size=500, overlap=50, children_per_parent=3), then a
\* query with top_k = 1 runs against the session
\* ------------------------------------------------------------------------

\* n letters: prose without a sentence break
PlainText(n) == [i \in 1..n |-> "a"]

\* n characters with a sentence break ". " at offset k of every period of p
PeriodicText(n, p, k) ==
    [i \in 1..n |-> IF i % p = k THEN "." ELSE IF i % p = k + 1 THEN " " ELSE "a"]

\* what MarkdownParser.extract_text returns for a document without headings:
\* one segment
ScenarioDocuments ==
    {<<PlainText(3000)>>, <<PeriodicText(3000, 450, 440)>>, <<PeriodicText(3000, 500, 480)>>,
     <<PeriodicText(3000, 50, 20)>>, <<PeriodicText(3000, 97, 20)>>}

InitScenario ==
    /\ IdleExtras
    /\ store = <<>>
    /\ collection_size = 0
    /\ request = [query |-> "q", session_id |-> SessionS1, source |-> "books",
                  top_k |-> 1, retrieval_percentage |-> NoneInt]
    /\ neighbor_window \in 0..MaxWindow
    /\ has_mcp_manager = FALSE
    /\ top_k = 0
    /\ search_result = <<>>
    /\ book_chunks = <<>>
    /\ mcp_context = <<>>
    /\ mcp_calls = <<>>
    /\ mcp_raised = {}
    /\ fetch_failed = {}
    /\ combined_context = NoContext
    /\ gen_calls = 0
    /\ response = NoResponse
    /\ error = ""
    /\ pc = "ingest"
    /\ chunker = [chunk_size |-> 500, overlap |-> 50, children_per_parent |-> 3]
    /\ segments \in ScenarioDocuments
    /\ seg_index = 1
    /\ text = <<>>
    /\ code_blocks = <<>>
    /\ start = 0
    /\ chunks = <<>>
    /\ child_chunks = <<>>
    /\ all_chunks_data = <<>>
    /\ next_uuid = 0

\* the chat route calls query() on the session the document was ingested in
BeginQuery ==
    /\ pc = "ingested"
    /\ UNCHANGED xvars
    /\ pc' = "start"
    /\ UNCHANGED <<store, qvars_but_pc, collection_size, ivars>>

NextScenario ==
    \/ BeginSegment
    \/ WindowStep
    \/ ReturnChunks
    \/ GroupChildren
    \/ StoreChunks
    \/ BeginQuery
    \/ RetrieveBookChunks
    \/ RetrieveCompliance
    \/ RetrieveMslearn
    \/ Fuse
    \/ Generate

SpecScenario == InitScenario /\ [][NextScenario]_vars

\* the rows stored for the session of the scenario
ScenarioRows ==
    LET name == SanitizeCollectionName(request.session_id)
    IN IF name \in DOMAIN store THEN store[name] ELSE <<>>

\* ingest_book has returned
Ingested == pc \notin {"ingest", "window", "group"}

\* _retrieve_book_chunks has returned
Retrieved == pc \in {"compliance", "mslearn", "fuse", "generate", "done"}

\* the search matched the child with sequence number n, and only it
SearchMatched(n) ==
    /\ Retrieved
    /\ Len(search_result) = 1
    /\ search_result[1].sequence_number = n

SeqsOf(cks) == [i \in DOMAIN cks |-> cks[i].sequence_number]

NoSentenceBreak(t) ==
    \A o \in 0..(Len(t) - 2) :
        ~(At(t, o) \in {".", "?", "!"} /\ At(t, o + 1) \in Whitespace)

\* the rows of the parent group (of three consecutive children) of row k
GroupOf(rows, k) ==
    LET first == 3 * ((k - 1) \div 3) + 1
        last == Min(first + 2, Len(rows))
    IN [j \in 1..(last - first + 1) |-> rows[first + j - 1].document]

MaxBooks == 2           \* max_books ranges over 0..MaxBooks
MaxBookIds == 2         \* books are 1..MaxBookIds

BookIds == 1..MaxBookIds

\* self._sessions.get(session_id, [])
GetBooks(ss, sid) == IF sid \in DOMAIN ss THEN ss[sid] ELSE <<>>

\* add_book with > in place of >=
AddBook_OffByOne(ss, limit, sid, book) ==
    LET created == [x \in DOMAIN ss \cup {sid} |-> IF x \in DOMAIN ss THEN ss[x] ELSE <<>>]
    IN IF Len(created[sid]) > limit
       THEN [sessions |-> created, raised |-> "SessionLimitError"]
       ELSE [sessions |-> [created EXCEPT ![sid] = Append(@, book)], raised |-> ""]

\* add_book: the session is created when missing; at capacity SessionLimitError
\* is raised, otherwise the book is appended
AddBook(ss, limit, sid, book) ==
    LET created == [x \in DOMAIN ss \cup {sid} |-> IF x \in DOMAIN ss THEN ss[x] ELSE <<>>]
    IN IF Len(created[sid]) >= limit
       THEN [sessions |-> created, raised |-> "SessionLimitError"]
       ELSE [sessions |-> [created EXCEPT ![sid] = Append(@, book)], raised |-> ""]

\* remove_book: the first book with the id is deleted from the list;
\* BookNotFoundError when there is none
RemoveBook(ss, sid, book) ==
    LET books == GetBooks(ss, sid)
        hits == {i \in DOMAIN books : books[i] = book}
    IN IF hits = {}
       THEN [sessions |-> ss, raised |-> "BookNotFoundError"]
       ELSE LET i == Least(hits)
                rest == SubSeq(books, 1, i - 1) \o SubSeq(books, i + 1, Len(books))
            IN [sessions |-> [ss EXCEPT ![sid] = rest], raised |-> ""]

\* clear_session: self._sessions.pop(session_id, None)
ClearSession(ss, sid) == [x \in DOMAIN ss \ {sid} |-> ss[x]]

SessionIds == {SessionDot, SessionS1}

InitSession ==
    /\ store = <<>>
    /\ collection_size = 0
    /\ IdleQuery
    /\ IdleIngest
    /\ pc = "session"
    /\ sessions = <<>>
    /\ max_books \in 0..MaxBooks
    /\ last_call = NoCall
    /\ added_by = <<>>
    /\ IdleStream
    /\ IdleMcp
    /\ IdleRequests

SessionUnchanged ==
    UNCHANGED <<store, qvars, collection_size, ivars, max_books, added_by, events,
                registered, connected, attempts, tool_calls, adapter_result, rvars>>

AddBookCall ==
    /\ pc = "session"
    /\ \E sid \in SessionIds, book \in BookIds :
          LET r == AddBook(sessions, max_books, sid, book)
          IN /\ sessions' = r.sessions
             /\ last_call' = [op |-> "add_book", session |-> sid, book |-> book,
                              raised |-> r.raised, before |-> sessions]
    /\ SessionUnchanged

RemoveBookCall ==
    /\ pc = "session"
    /\ \E sid \in SessionIds, book \in BookIds :
          LET r == RemoveBook(sessions, sid, book)
          IN /\ sessions' = r.sessions
             /\ last_call' = [op |-> "remove_book", session |-> sid, book |-> book,
                              raised |-> r.raised, before |-> sessions]
    /\ SessionUnchanged

ClearSessionCall ==
    /\ pc = "session"
    /\ \E sid \in SessionIds :
          /\ sessions' = ClearSession(sessions, sid)
          /\ last_call' = [op |-> "clear_session", session |-> sid, book |-> 0,
                           raised |-> "", before |-> sessions]
    /\ SessionUnchanged

NextSession ==
    \/ AddBookCall
    \/ RemoveBookCall
    \/ ClearSessionCall

SpecSession == InitSession /\ [][NextSession]_vars

\* C12: every session holds at most max_books books; add_book on a session
\* that holds max_books raises SessionLimitError and leaves the session's book
\* list as it was, and succeeds otherwise; remove_book of a book that is not
\* in the session raises BookNotFoundError and changes no session.
C12_SessionCapacity ==
    /\ \A sid \in DOMAIN sessions : Len(sessions[sid]) <= max_books
    /\ last_call.op = "add_book" =>
          LET was == GetBooks(last_call.before, last_call.session)
              now == GetBooks(sessions, last_call.session)
          IN IF Len(was) >= max_books
             THEN last_call.raised = "SessionLimitError" /\ now = was
             ELSE last_call.raised = "" /\ now = Append(was, last_call.book)
    /\ last_call.op = "remove_book" =>
          LET was == GetBooks(last_call.before, last_call.session)
          IN (\A i \in DOMAIN was : was[i] # last_call.book) =>
                /\ last_call.raised = "BookNotFoundError"
                /\ \A sid \in SessionIds :
                      GetBooks(sessions, sid) = GetBooks(last_call.before, sid)

\* a full session refused a further book
C12_Witness ==
    /\ last_call.op = "add_book"
    /\ last_call.raised = "SessionLimitError"
    /\ max_books = 2
    /\ Len(GetBooks(sessions, last_call.session)) = 2

\* ------------------------------------------------------------------------
\* ChromaVectorStore used by several sessions: add, size, search, neighbor
\* fetch, delete_collection, delete_book_chunks
\* ------------------------------------------------------------------------
StoreSessionIds == {SessionDot, SessionUnderscore, SessionS1}

MaxAdded == 2           \* chunks added to the store over a run

\* delete_collection without the except ValueError
DeleteCollection_Uncaught(st, cid) ==
    LET name == SanitizeCollectionName(cid)
    IN IF name \in DOMAIN st
       THEN [store |-> [c \in DOMAIN st \ {name} |-> st[c]], raised |-> ""]
       ELSE [store |-> st, raised |-> "ValueError"]

\* delete_collection: the client's ValueError for a collection that does not
\* exist is caught
DeleteCollection(st, cid) ==
    LET name == SanitizeCollectionName(cid)
    IN IF name \in DOMAIN st
       THEN [store |-> [c \in DOMAIN st \ {name} |-> st[c]], raised |-> ""]
       ELSE [store |-> st, raised |-> ""]

\* delete_book_chunks: nothing without the collection, otherwise
\* collection.delete(where={"book_id": book_id})
DeleteBookChunks(st, cid, book) ==
    LET name == SanitizeCollectionName(cid)
    IN IF name \notin DOMAIN st
       THEN [store |-> st, raised |-> ""]
       ELSE [store |-> [st EXCEPT ![name] = SelectSeq(st[name], LAMBDA r : r.book_id # book)],
             raised |-> ""]

\* all rows of the store
AllRows(st) == UNION {Range(st[c]) : c \in DOMAIN st}

InitStore ==
    /\ store = <<>>
    /\ collection_size = 0
    /\ IdleQuery
    /\ IdleIngest
    /\ pc = "store"
    /\ IdleSessions
    /\ last_call = NoCall
    /\ added_by = <<>>
    /\ IdleStream
    /\ IdleMcp
    /\ IdleRequests

StoreUnchanged ==
    UNCHANGED <<qvars, collection_size, chunker, segments, seg_index, text,
                code_blocks, start, chunks, child_chunks, all_chunks_data,
                sessions, max_books, events, registered, connected, attempts,
                tool_calls, adapter_result, rvars>>

\* add_chunks as a whole: return for an empty list (line 33), then
\* get_or_create_collection (36-39), then the embeddings check (59-60), then
\* collection.add; embedded[i] says whether chunk i carries an embedding
AddChunksChecked(st, rows, embedded, cid) ==
    LET name == SanitizeCollectionName(cid)
        created == IF name \in DOMAIN st THEN st
                   ELSE [c \in DOMAIN st \cup {name} |-> IF c = name THEN <<>> ELSE st[c]]
    IN IF rows = <<>> THEN [store |-> st, raised |-> ""]
       ELSE IF \E i \in DOMAIN rows : ~embedded[i]
            THEN [store |-> created, raised |-> "ValueError"]
            ELSE [store |-> AddChunks(st, rows, cid), raised |-> ""]

\* add_chunks of n chunks of a document, some of them possibly not embedded
StoreAdd ==
    /\ pc = "store"
    /\ \E sid \in StoreSessionIds, book \in BookIds, n \in 0..2 :
          \E embedded \in [1..n -> BOOLEAN] :
          LET rows == SegmentRows(book, 1, n, next_uuid, FALSE)
              r == AddChunksChecked(store, rows, embedded, sid)
              stored == IF r.raised = "" THEN {rows[k].id : k \in DOMAIN rows} ELSE {}
          IN /\ next_uuid + n <= MaxAdded
             /\ store' = r.store
             /\ next_uuid' = IF r.raised = "" THEN next_uuid + n ELSE next_uuid
             /\ added_by' = [i \in DOMAIN added_by \cup stored |->
                               IF i \in DOMAIN added_by THEN added_by[i] ELSE sid]
             /\ last_call' = [op |-> "add_chunks", session |-> sid, book |-> book,
                              raised |-> r.raised, before |-> store, result |-> rows,
                              embedded |-> embedded]
    /\ StoreUnchanged

StoreSize ==
    /\ pc = "store"
    /\ \E sid \in StoreSessionIds :
          last_call' = [op |-> "get_collection_size", session |-> sid, book |-> 0,
                        raised |-> "", before |-> store,
                        result |-> GetCollectionSize(store, sid)]
    /\ UNCHANGED <<store, next_uuid, added_by>>
    /\ StoreUnchanged

StoreSearch ==
    /\ pc = "store"
    /\ \E sid \in StoreSessionIds, k \in 1..MaxTopK :
          \E found \in SearchResults(store, sid, k) :
             last_call' = [op |-> "search", session |-> sid, book |-> 0,
                           raised |-> "", before |-> store, result |-> found]
    /\ UNCHANGED <<store, next_uuid, added_by>>
    /\ StoreUnchanged

\* get_neighbor_chunks for chunks a search of the session returned
StoreNeighbors ==
    /\ pc = "store"
    /\ \E sid \in StoreSessionIds :
          \E found \in SearchResults(store, sid, 1) :
             last_call' = [op |-> "get_neighbor_chunks", session |-> sid, book |-> 0,
                           raised |-> "", before |-> store,
                           result |-> GetNeighborChunks(store, found, sid, 1, {})]
    /\ UNCHANGED <<store, next_uuid, added_by>>
    /\ StoreUnchanged

StoreDeleteCollection ==
    /\ pc = "store"
    /\ \E sid \in StoreSessionIds :
          LET r == DeleteCollection(store, sid)
          IN /\ store' = r.store
             /\ last_call' = [op |-> "delete_collection", session |-> sid, book |-> 0,
                              raised |-> r.raised, before |-> store, result |-> <<>>]
    /\ UNCHANGED <<next_uuid, added_by>>
    /\ StoreUnchanged

StoreDeleteBookChunks ==
    /\ pc = "store"
    /\ \E sid \in StoreSessionIds, book \in BookIds :
          LET r == DeleteBookChunks(store, sid, book)
          IN /\ store' = r.store
             /\ last_call' = [op |-> "delete_book_chunks", session |-> sid, book |-> book,
                              raised |-> r.raised, before |-> store, result |-> <<>>]
    /\ UNCHANGED <<next_uuid, added_by>>
    /\ StoreUnchanged

NextStore ==
    \/ StoreAdd
    \/ StoreSize
    \/ StoreSearch
    \/ StoreNeighbors
    \/ StoreDeleteCollection
    \/ StoreDeleteBookChunks

SpecStore == InitStore /\ [][NextStore]_vars

\* the ids of the rows now stored that were added under session sid
OwnedIds(sid) == {r.id : r \in {x \in AllRows(store) : added_by[x.id] = sid}}

\* C13: two different session ids under which chunks were added have
\* different collection names; search and neighbor fetch of a session return
\* only chunks added under that session, its size query counts only those, and
\* a deletion by a session removes no chunk added under another session.
C13_SessionIsolation ==
    /\ \A i, j \in DOMAIN added_by :
          added_by[i] # added_by[j] =>
             SanitizeCollectionName(added_by[i]) # SanitizeCollectionName(added_by[j])
    /\ last_call.op \in {"search", "get_neighbor_chunks"} =>
          \A i \in DOMAIN last_call.result :
             added_by[last_call.result[i].id] = last_call.session
    /\ last_call.op = "get_collection_size" =>
          last_call.result = Cardinality(OwnedIds(last_call.session))
    /\ last_call.op \in {"delete_collection", "delete_book_chunks"} =>
          \A r \in AllRows(last_call.before) \ AllRows(store) :
             added_by[r.id] = last_call.session

\* rows of the collection of session sid in store st
RowsOf(st, sid) ==
    LET name == SanitizeCollectionName(sid)
    IN IF name \in DOMAIN st THEN Range(st[name]) ELSE {}

ExternalSourceNames == {"compliance", "mslearn", "export_control"}

\* the external sources a request selects
SelectedSources(source) ==
    CASE source = "all" -> ExternalSourceNames
      [] source = "both" -> {"compliance"}
      [] source \in ExternalSourceNames -> {source}
      [] OTHER -> {}

\* how often search_context was called for source s
CallsFor(s) == Cardinality({i \in DOMAIN mcp_calls : mcp_calls[i] = s})

\* C14: when query() with a registry reaches generation, search_context has
\* been called exactly once for every external source the request selects
\* (compliance, mslearn, export_control; all three for "all") and for no other
\* source.
C14_SelectedSourcesQueried ==
    (has_mcp_manager /\ pc \in {"generate", "done"}) =>
        \A s \in ExternalSourceNames :
            CallsFor(s) = IF s \in SelectedSources(request.source) THEN 1 ELSE 0

\* C17: once a call of local retrieval has failed (the embedding function, the
\* size query, the search, or the neighbor fetch of some document), query()
\* has ended with that error: it never goes on with the local context it has.
C17_LocalFailuresPropagate ==
    /\ fetch_failed # {} => pc = "error" /\ error = "vector_index"
    /\ error \in {"embedding", "vector_index"} => pc = "error" /\ book_chunks = <<>>

\* ------------------------------------------------------------------------
\* generate_sse_stream (api/routes/chat_stream.py), one step per yield or
\* awaited call; events is the sequence of SSE events yielded so far
\* ------------------------------------------------------------------------
MaxTokens == 2          \* generate_stream yields at most this many tokens

\* a local of generate_sse_stream that holds a list of chunks
ChunkList(items) == [kind |-> "list", items |-> items]

\* a local of generate_sse_stream that holds a single Chunk object
ChunkObject(c) == [kind |-> "chunk", items |-> <<c>>]

\* "source_chunks, context_chunks = <list>": unpacking needs exactly two
\* elements and binds the two elements themselves
UnpackPair(value) ==
    IF Len(value) = 2
    THEN [raised |-> "", first |-> ChunkObject(value[1]), second |-> ChunkObject(value[2])]
    ELSE [raised |-> "ValueError", first |-> ChunkList(<<>>), second |-> ChunkList(<<>>)]

\* format_sources: a comprehension over its argument; a Chunk is not iterable
FormatSources(holder) ==
    IF holder.kind = "list"
    THEN [raised |-> "", value |-> [i \in DOMAIN holder.items |-> holder.items[i].id]]
    ELSE [raised |-> "TypeError", value |-> <<>>]

StreamRequests ==
    [query : {"q"}, session_id : {SessionS1}, source : QuerySource,
     top_k : 1..MaxTopK, retrieval_percentage : {NoneInt}]

InitStream ==
    /\ store \in {st \in StoreChoices : GetCollectionSize(st, SessionS1) <= MaxStoreRows}
    /\ request \in StreamRequests
    /\ neighbor_window \in 0..MaxWindow
    /\ has_mcp_manager \in BOOLEAN
    /\ pc = "stream"
    /\ top_k = 0
    /\ search_result = <<>>
    /\ book_chunks = <<>>
    /\ mcp_context = <<>>
    /\ mcp_calls = <<>>
    /\ mcp_raised = {}
    /\ fetch_failed = {}
    /\ combined_context = NoContext
    /\ gen_calls = 0
    /\ response = NoResponse
    /\ error = ""
    /\ collection_size = 0
    /\ IdleIngest
    /\ IdleSessions
    /\ last_call = NoCall
    /\ added_by = <<>>
    /\ events = <<>>
    /\ IdleMcp
    /\ IdleRequests

StreamUnchanged ==
    /\ UNCHANGED ivars
    /\ UNCHANGED <<store, request, neighbor_window, has_mcp_manager, response,
                   collection_size, sessions, max_books, last_call, added_by,
                   registered, connected, attempts, tool_calls, adapter_result, rvars>>

\* the except Exception handler of lines 109-111
StreamError(cause) ==
    /\ events' = Append(events, "error")
    /\ error' = cause
    /\ pc' = "stream_end"

\* lines 52-57: yield start, then the empty locals
StreamStart ==
    /\ pc = "stream"
    /\ events' = Append(events, "start")
    /\ search_result' = ChunkList(<<>>)
    /\ book_chunks' = ChunkList(<<>>)
    /\ pc' = "stream_books"
    /\ UNCHANGED <<top_k, mcp_context, mcp_calls, mcp_raised, fetch_failed,
                   combined_context, gen_calls, error>>
    /\ StreamUnchanged

\* lines 70-71: _retrieve_book_chunks returns one list, which is unpacked
\* into source_chunks (search_result) and context_chunks (book_chunks)
StreamRetrieveBooks ==
    /\ pc = "stream_books"
    /\ UNCHANGED <<mcp_context, mcp_calls, mcp_raised, combined_context, gen_calls>>
    /\ StreamUnchanged
    /\ IF ~query_books
       THEN /\ pc' = "stream_compliance"
            /\ UNCHANGED <<top_k, search_result, book_chunks, fetch_failed, error, events>>
       ELSE \E fault \in {"none", "embedding", "vector_index"} :
            IF fault # "none"
            THEN /\ StreamError(fault)
                 /\ UNCHANGED <<top_k, search_result, book_chunks, fetch_failed>>
            ELSE LET size == GetCollectionSize(store, request.session_id)
                     k == ComputeTopK(request, size)
                 IN \E found \in SearchResults(store, request.session_id, k) :
                    \E failed \in SUBSET Range(BooksInOrder(found)) :
                       LET retrieved == IF neighbor_window > 0
                                        THEN GetNeighborChunks(store, found, request.session_id,
                                                               neighbor_window, failed)
                                        ELSE found
                           pair == UnpackPair(retrieved)
                       IN /\ neighbor_window = 0 => failed = {}
                          /\ top_k' = k
                          /\ fetch_failed' = failed
                          /\ search_result' = pair.first
                          /\ book_chunks' = pair.second
                          /\ IF pair.raised # ""
                             THEN StreamError(pair.raised)
                             ELSE /\ pc' = "stream_compliance"
                                  /\ UNCHANGED <<error, events>>

\* one "if query_x: ctx = await query_service._retrieve_mcp_context(x, request)"
StreamRetrieveSource(source, selected, nextPc) ==
    /\ UNCHANGED <<top_k, search_result, book_chunks, fetch_failed, combined_context,
                   gen_calls, error, events>>
    /\ StreamUnchanged
    /\ pc' = nextPc
    /\ IF ~selected
       THEN UNCHANGED <<mcp_context, mcp_calls, mcp_raised>>
       ELSE \E outcome \in ExternalOutcomes(source) :
            LET r == RetrieveMcpContext(has_mcp_manager, outcome)
            IN /\ has_mcp_manager \/ ~outcome.raises
               /\ has_mcp_manager \/ outcome.context = <<>>
               /\ mcp_calls' = IF r.called THEN Append(mcp_calls, source) ELSE mcp_calls
               /\ mcp_raised' = IF r.called /\ outcome.raises
                                THEN mcp_raised \cup {source} ELSE mcp_raised
               /\ mcp_context' = mcp_context \o r.context

\* lines 74-76
StreamRetrieveCompliance ==
    /\ pc = "stream_compliance"
    /\ StreamRetrieveSource("compliance", query_compliance, "stream_mslearn")

\* lines 78-80
StreamRetrieveMslearn ==
    /\ pc = "stream_mslearn"
    /\ StreamRetrieveSource("mslearn", query_mslearn, "stream_export_control")

\* lines 82-84
StreamRetrieveExportControl ==
    /\ pc = "stream_export_control"
    /\ StreamRetrieveSource("export_control",
                            request.source \in {"export_control", "all"},
                            "stream_sources")

\* lines 87-91: format_sources(source_chunks), yield sources
StreamSources ==
    /\ pc = "stream_sources"
    /\ LET formatted == FormatSources(search_result)
       IN IF formatted.raised # ""
          THEN StreamError(formatted.raised)
          ELSE /\ events' = Append(events, "sources")
               /\ pc' = "stream_tokens"
               /\ UNCHANGED error
    /\ UNCHANGED <<top_k, search_result, book_chunks, mcp_context, mcp_calls,
                   mcp_raised, fetch_failed, combined_context, gen_calls>>
    /\ StreamUnchanged

\* lines 98-104: one token of generate_stream
StreamToken ==
    /\ pc = "stream_tokens"
    /\ gen_calls < MaxTokens
    /\ gen_calls' = gen_calls + 1
    /\ events' = Append(events, "token")
    /\ UNCHANGED <<pc, top_k, search_result, book_chunks, mcp_context, mcp_calls,
                   mcp_raised, fetch_failed, combined_context, error>>
    /\ StreamUnchanged

\* generate_stream raises LLMConnectionError, before or between tokens
StreamGenerationFails ==
    /\ pc = "stream_tokens"
    /\ StreamError("llm_connection")
    /\ UNCHANGED <<top_k, search_result, book_chunks, mcp_context, mcp_calls,
                   mcp_raised, fetch_failed, combined_context, gen_calls>>
    /\ StreamUnchanged

\* line 107: generate_stream is exhausted, yield done
StreamDone ==
    /\ pc = "stream_tokens"
    /\ events' = Append(events, "done")
    /\ pc' = "stream_end"
    /\ UNCHANGED <<top_k, search_result, book_chunks, mcp_context, mcp_calls,
                   mcp_raised, fetch_failed, combined_context, gen_calls, error>>
    /\ StreamUnchanged

NextStream ==
    \/ StreamStart
    \/ StreamRetrieveBooks
    \/ StreamRetrieveCompliance
    \/ StreamRetrieveMslearn
    \/ StreamRetrieveExportControl
    \/ StreamSources
    \/ StreamToken
    \/ StreamGenerationFails
    \/ StreamDone

SpecStream == InitStream /\ [][NextStream]_vars

EventsOfKind(kind) == {i \in DOMAIN events : events[i] = kind}

Terminal == {"done", "error"}

\* C15: the stream starts with the one start event; a token event comes only
\* after the sources event; the finished stream has exactly one terminal
\* event, in last position, which is done when retrieval and generation
\* succeeded and error when one of them failed; so a finished stream whose
\* retrieval and generation succeeded is start, sources, token*, done.
C15_StreamEventOrder ==
    /\ events # <<>> => events[1] = "start" /\ Cardinality(EventsOfKind("start")) = 1
    /\ \A i \in EventsOfKind("token") : \E j \in EventsOfKind("sources") : j < i
    /\ Cardinality(EventsOfKind("sources")) <= 1
    /\ \A i \in DOMAIN events : events[i] \in Terminal => i = Len(events) /\ pc = "stream_end"
    /\ pc = "stream_end" =>
          /\ events[Len(events)] \in Terminal
          /\ events[Len(events)] = "error"
                <=> error \in {"embedding", "vector_index", "llm_connection"}
          /\ events[Len(events)] = "done" =>
                /\ events[2] = "sources"
                /\ \A i \in 3..(Len(events) - 1) : events[i] = "token"

\* ------------------------------------------------------------------------
\* MCPManager and the Knowledge-Source Adapters (mcp/manager.py,
\* mcp/adapters/*.py, mcp/base_client.py)
\* ------------------------------------------------------------------------
\* adapter names: AegisAdapter, MSLearnAdapter, ExportControlAdapter
AdapterNames == {"compliance", "mslearn", "export_control"}

\* what a content item of a tool result can be: a TextContent whose text is a
\* JSON object, a JSON list of two objects, not JSON, or JSON that is not an
\* object (its formatter fails with AttributeError); a dict; anything else
ItemKinds == {"json_object", "json_list", "not_json", "json_scalar", "dict", "other"}

\* result.content: empty, one item of each kind, and pairs that put a failing
\* item before and after a good one
ToolContents ==
    {<<>>}
    \cup {<<k>> : k \in ItemKinds}
    \cup {<<"json_object", "json_scalar">>, <<"json_scalar", "json_object">>,
          <<"not_json", "json_list">>, <<"dict", "not_json">>, <<"other", "dict">>}

\* what session.call_tool can do: raise, return None, return a result
ToolOutcomes ==
    {[kind |-> "raises", content |-> <<>>], [kind |-> "null", content |-> <<>>]}
    \cup {[kind |-> "result", content |-> c] : c \in ToolContents}

\* _format_results: the loop over result.content; JSONDecodeError and KeyError
\* skip the item, any other exception leaves the loop
RECURSIVE FormatItems(_, _, _)
FormatItems(content, i, acc) ==
    IF i > Len(content) THEN [raised |-> "", value |-> acc]
    ELSE CASE content[i] \in {"json_object", "dict"} ->
                 FormatItems(content, i + 1, Append(acc, "entry" \o ToString(i)))
           [] content[i] = "json_list" ->
                 FormatItems(content, i + 1,
                             acc \o <<"entry" \o ToString(i) \o "a", "entry" \o ToString(i) \o "b">>)
           [] content[i] = "json_scalar" -> [raised |-> "AttributeError", value |-> <<>>]
           [] OTHER -> FormatItems(content, i + 1, acc)

FormatResults(outcome) ==
    IF outcome.kind = "null" \/ outcome.content = <<>>
    THEN [raised |-> "", value |-> <<>>]
    ELSE FormatItems(outcome.content, 1, <<>>)

\* BaseMCPClient.call_tool followed by _format_results, no handler around them
CallAndFormat(outcome) ==
    IF outcome.kind = "raises"
    THEN [raised |-> "Exception", value |-> <<>>]
    ELSE FormatResults(outcome)

\* search_context of an adapter without the try/except around the call
AdapterSearchContext_Uncaught(isConnected, outcome) ==
    IF ~isConnected THEN [called |-> FALSE, raised |-> "", value |-> <<>>]
    ELSE [called |-> TRUE, raised |-> CallAndFormat(outcome).raised,
          value |-> CallAndFormat(outcome).value]

\* search_context of an adapter: [] when not connected; call_tool and
\* _format_results inside try, except Exception returning []
AdapterSearchContext(isConnected, outcome) ==
    IF ~isConnected THEN [called |-> FALSE, raised |-> "", value |-> <<>>]
    ELSE IF CallAndFormat(outcome).raised # ""
         THEN [called |-> TRUE, raised |-> "", value |-> <<>>]
         ELSE [called |-> TRUE, raised |-> "", value |-> CallAndFormat(outcome).value]

\* MCPManager.search_context: [] for a name that is not registered
ManagerSearchContext(regs, conn, source, outcome) ==
    IF source \notin Range(regs)
    THEN [called |-> FALSE, raised |-> "", value |-> <<>>]
    ELSE AdapterSearchContext(source \in conn, outcome)

\* connect_all that lets the first failure out
ConnectAll_AbortOnFailure(regs, conn, outcomes) ==
    LET failing == {i \in DOMAIN regs : ~outcomes[regs[i]]}
        last == IF failing = {} THEN Len(regs) ELSE Least(failing)
        tried == [i \in 1..last |-> [op |-> "connect", name |-> regs[i], ok |-> outcomes[regs[i]]]]
    IN [attempts |-> tried,
        connected |-> (conn \ {regs[i] : i \in failing \cap 1..last})
                      \cup {regs[i] : i \in (1..last) \ failing},
        raised |-> IF failing = {} THEN "" ELSE "ConnectionError"]

\* the loop of connect_all from adapter i on: connect() either leaves the
\* client connected or disconnects it and raises ConnectionError, which the
\* loop catches
RECURSIVE ConnectLoop(_, _, _, _)
ConnectLoop(regs, i, outcomes, acc) ==
    IF i > Len(regs) THEN acc
    ELSE ConnectLoop(regs, i + 1, outcomes,
            [attempts |-> Append(acc.attempts,
                                 [op |-> "connect", name |-> regs[i], ok |-> outcomes[regs[i]]]),
             connected |-> IF outcomes[regs[i]]
                           THEN acc.connected \cup {regs[i]}
                           ELSE acc.connected \ {regs[i]},
             raised |-> ""])

ConnectAll(regs, conn, outcomes) ==
    ConnectLoop(regs, 1, outcomes, [attempts |-> <<>>, connected |-> conn, raised |-> ""])

\* the loop of disconnect_all: disconnect() drops the session whether or not
\* closing it failed
RECURSIVE DisconnectLoop(_, _, _, _)
DisconnectLoop(regs, i, outcomes, acc) ==
    IF i > Len(regs) THEN acc
    ELSE DisconnectLoop(regs, i + 1, outcomes,
            [attempts |-> Append(acc.attempts,
                                 [op |-> "disconnect", name |-> regs[i], ok |-> outcomes[regs[i]]]),
             connected |-> acc.connected \ {regs[i]},
             raised |-> ""])

DisconnectAll(regs, conn, outcomes) ==
    DisconnectLoop(regs, 1, outcomes, [attempts |-> <<>>, connected |-> conn, raised |-> ""])

InitMcp ==
    /\ store = <<>>
    /\ collection_size = 0
    /\ IdleQuery
    /\ IdleIngest
    /\ pc = "mcp"
    /\ IdleSessions
    /\ last_call = NoCall
    /\ added_by = <<>>
    /\ IdleStream
    /\ IdleMcp
    /\ IdleRequests

McpUnchanged ==
    /\ UNCHANGED ivars
    /\ UNCHANGED <<store, qvars, collection_size, sessions, max_books, added_by, events,
                   rvars>>

\* MCPManager.register
Register ==
    /\ pc = "mcp"
    /\ \E name \in AdapterNames \ Range(registered) :
          /\ registered' = Append(registered, name)
          /\ last_call' = [op |-> "register", source |-> name, raised |-> ""]
    /\ attempts' = <<>>
    /\ tool_calls' = <<>>
    /\ adapter_result' = NoResult
    /\ UNCHANGED connected
    /\ McpUnchanged

ConnectAllCall ==
    /\ pc = "mcp"
    /\ \E outcomes \in [AdapterNames -> BOOLEAN] :
          LET r == ConnectAll(registered, connected, outcomes)
          IN /\ attempts' = r.attempts
             /\ connected' = r.connected
             /\ last_call' = [op |-> "connect_all", source |-> "", raised |-> r.raised]
    /\ tool_calls' = <<>>
    /\ adapter_result' = NoResult
    /\ UNCHANGED registered
    /\ McpUnchanged

DisconnectAllCall ==
    /\ pc = "mcp"
    /\ \E outcomes \in [AdapterNames -> BOOLEAN] :
          LET r == DisconnectAll(registered, connected, outcomes)
          IN /\ attempts' = r.attempts
             /\ connected' = r.connected
             /\ last_call' = [op |-> "disconnect_all", source |-> "", raised |-> r.raised]
    /\ tool_calls' = <<>>
    /\ adapter_result' = NoResult
    /\ UNCHANGED registered
    /\ McpUnchanged

\* MCPManager.search_context(source, query, top_k)
SearchContextCall ==
    /\ pc = "mcp"
    /\ \E source \in AdapterNames, outcome \in ToolOutcomes :
          LET r == ManagerSearchContext(registered, connected, source, outcome)
          IN /\ tool_calls' = IF r.called THEN <<[source |-> source, outcome |-> outcome]>>
                              ELSE <<>>
             /\ adapter_result' = IF r.raised # ""
                                  THEN [kind |-> "raised", value |-> <<>>]
                                  ELSE [kind |-> "list", value |-> r.value]
             /\ last_call' = [op |-> "search_context", source |-> source, raised |-> r.raised]
    /\ attempts' = <<>>
    /\ UNCHANGED <<registered, connected>>
    /\ McpUnchanged

NextMcp ==
    \/ Register
    \/ ConnectAllCall
    \/ DisconnectAllCall
    \/ SearchContextCall

SpecMcp == InitMcp /\ [][NextMcp]_vars

\* C18: search_context never raises and returns a list; for a source that is
\* not registered or whose client is not connected it returns [] and the
\* remote tool is not called; when the tool call fails or returns nothing it
\* returns [].
C18_SearchContextNeverRaises ==
    last_call.op = "search_context" =>
        /\ last_call.raised = ""
        /\ adapter_result.kind = "list"
        /\ (last_call.source \notin Range(registered) \/ last_call.source \notin connected)
              => adapter_result.value = <<>> /\ tool_calls = <<>>
        /\ \A i \in DOMAIN tool_calls :
              tool_calls[i].outcome.kind \in {"raises", "null"}
              \/ tool_calls[i].outcome.content = <<>>
              \/ "json_scalar" \in Range(tool_calls[i].outcome.content)
                 => adapter_result.value = <<>>

\* a connected adapter's tool returned a parsed item followed by one whose
\* formatting fails outside the parse handler
C18_Witness ==
    /\ last_call.op = "search_context"
    /\ tool_calls # <<>>
    /\ tool_calls[1].outcome.content = <<"json_object", "json_scalar">>
    /\ adapter_result = [kind |-> "list", value |-> <<>>]

\* C19: connect_all and disconnect_all return normally and have attempted
\* every registered adapter exactly once, in registration order, whichever
\* adapters failed.
C19_BatchAttemptsEveryAdapter ==
    last_call.op \in {"connect_all", "disconnect_all"} =>
        /\ last_call.raised = ""
        /\ [i \in DOMAIN attempts |-> attempts[i].name] = registered
        /\ \A i \in DOMAIN attempts :
              attempts[i].op = IF last_call.op = "connect_all" THEN "connect" ELSE "disconnect"

\* connect_all over three adapters where the first failed and a later one
\* connected
C19_Witness ==
    /\ last_call.op = "connect_all"
    /\ Len(attempts) = 3
    /\ ~attempts[1].ok
    /\ attempts[3].ok
    /\ attempts[3].name \in connected

\* ------------------------------------------------------------------------
\* query() with each external call split into the call and the source's
\* answer: BaseMCPClient.call_tool awaits session.call_tool and nothing else
\* ------------------------------------------------------------------------
InitQueryLive ==
    /\ IdleExtras
    /\ store \in {<<>>, OneCollection(BookRows(1, <<2>>, 0, TRUE))}
    /\ request \in {q \in Requests : q.retrieval_percentage = NoneInt}
    /\ neighbor_window = 0
    /\ has_mcp_manager \in BOOLEAN
    /\ pc = "start"
    /\ top_k = 0
    /\ search_result = <<>>
    /\ book_chunks = <<>>
    /\ mcp_context = <<>>
    /\ mcp_calls = <<>>
    /\ mcp_raised = {}
    /\ fetch_failed = {}
    /\ combined_context = NoContext
    /\ gen_calls = 0
    /\ response = NoResponse
    /\ error = ""
    /\ collection_size = 0
    /\ IdleIngest

\* _retrieve_mcp_context up to "await self._session.call_tool(name, arguments)"
CallSource(source, selected, waitPc, nextPc) ==
    /\ UNCHANGED xvars
    /\ UNCHANGED ivars
    /\ UNCHANGED <<store, request, neighbor_window, has_mcp_manager, top_k,
                   search_result, book_chunks, fetch_failed, combined_context,
                   gen_calls, response, collection_size, mcp_context, mcp_raised, error>>
    /\ IF selected /\ has_mcp_manager
       THEN /\ mcp_calls' = Append(mcp_calls, source)
            /\ pc' = waitPc
       ELSE /\ pc' = nextPc
            /\ UNCHANGED mcp_calls

\* the source answers the pending call: a result or a failure, which
\* _retrieve_mcp_context turns into []
SourceResponds(source, nextPc) ==
    /\ UNCHANGED xvars
    /\ UNCHANGED ivars
    /\ UNCHANGED <<store, request, neighbor_window, has_mcp_manager, top_k,
                   search_result, book_chunks, fetch_failed, combined_context,
                   gen_calls, response, collection_size, mcp_calls, error>>
    /\ \E outcome \in ExternalOutcomes(source) :
          LET r == RetrieveMcpContext(has_mcp_manager, outcome)
          IN /\ mcp_raised' = IF outcome.raises THEN mcp_raised \cup {source} ELSE mcp_raised
             /\ mcp_context' = mcp_context \o r.context
             /\ pc' = nextPc

CallCompliance ==
    /\ pc = "compliance"
    /\ CallSource("compliance", query_compliance, "compliance_wait", "mslearn")

ComplianceResponds ==
    /\ pc = "compliance_wait"
    /\ SourceResponds("compliance", "mslearn")

CallMslearn ==
    /\ pc = "mslearn"
    /\ CallSource("mslearn", query_mslearn, "mslearn_wait", "fuse")

MslearnResponds ==
    /\ pc = "mslearn_wait"
    /\ SourceResponds("mslearn", "fuse")

NextQueryLive ==
    \/ RetrieveBookChunks
    \/ CallCompliance
    \/ ComplianceResponds
    \/ CallMslearn
    \/ MslearnResponds
    \/ Fuse
    \/ Generate

\* a step of query() itself, as opposed to a source's answer
QueryStep ==
    \/ RetrieveBookChunks
    \/ CallCompliance
    \/ CallMslearn
    \/ Fuse
    \/ Generate

\* the steps of query() itself are taken when they can be; whether a source
\* answers is up to the source
FairQuery == WF_vars(QueryStep)

SpecQueryLive == InitQueryLive /\ [][NextQueryLive]_vars /\ FairQuery

\* C16: every query eventually completes, with an answer or an error, whether
\* or not the external sources it calls ever answer.
C16_QueryCompletes == <>(pc \in {"done", "error"})

\* C21: add_chunks with an empty list returns normally, with a chunk that
\* lacks an embedding it raises, and in both cases the store is exactly as
\* before (no chunk added, no collection created); otherwise it returns
\* normally and every given chunk is in the session's collection.
C21_AddChunksAllOrNothing ==
    last_call.op = "add_chunks" =>
        LET lacking == \E i \in DOMAIN last_call.result : ~last_call.embedded[i]
        IN /\ last_call.result = <<>> => last_call.raised = "" /\ store = last_call.before
           /\ lacking => last_call.raised # "" /\ store = last_call.before
           /\ (last_call.result # <<>> /\ ~lacking) =>
                 /\ last_call.raised = ""
                 /\ Range(last_call.result) \subseteq RowsOf(store, last_call.session)

\* ------------------------------------------------------------------------
\* _sanitize_collection_name applied to collection ids
\* ------------------------------------------------------------------------
MaxIdLen == 3           \* short collection ids have at most this many characters

\* characters of the ids: a letter, a digit, the two separators, two
\* characters that are replaced
IdAlphabet == {"a", "1", "-", "_", ".", " "}

RECURSIVE IdsUpTo(_)
IdsUpTo(n) ==
    IF n = 0 THEN {<<>>}
    ELSE IdsUpTo(n - 1) \cup {Append(t, c) : t \in IdsUpTo(n - 1), c \in IdAlphabet}

\* ids of 64 and 65 characters, with separators around the cut at 63
LongIds ==
    {[i \in 1..n |-> IF i \in seps THEN "_" ELSE "a"] :
        n \in {64, 65}, seps \in {{}, {63}, {62, 63}, {64}, {1}}}

CollectionIds == IdsUpTo(MaxIdLen) \cup LongIds

InitSanitize ==
    /\ store = <<>>
    /\ collection_size = 0
    /\ IdleQuery
    /\ IdleIngest
    /\ pc = "sanitize"
    /\ IdleSessions
    /\ last_call = NoCall
    /\ added_by = <<>>
    /\ IdleStream
    /\ IdleMcp
    /\ IdleRequests

Sanitize ==
    /\ pc = "sanitize"
    /\ \E id \in CollectionIds :
          last_call' = [op |-> "sanitize", session |-> id,
                        result |-> SanitizeCollectionName(id)]
    /\ UNCHANGED ivars
    /\ UNCHANGED <<store, qvars, collection_size, sessions, max_books, added_by,
                   events, registered, connected, attempts, tool_calls, adapter_result, rvars>>

NextSanitize == Sanitize

SpecSanitize == InitSanitize /\ [][NextSanitize]_vars

\* C22: the name derived from any collection id contains only alphanumerics,
\* hyphen and underscore, starts with a letter, is 3 to 63 characters long and
\* does not end with a hyphen or an underscore.
C22_CollectionNameValid ==
    last_call.op = "sanitize" =>
        LET name == last_call.result
        IN /\ \A i \in DOMAIN name : name[i] \in Letters \cup Digits \cup {"-", "_"}
           /\ Len(name) >= 3
           /\ Len(name) <= 63
           /\ name[1] \in Letters
           /\ name[Len(name)] \notin {"-", "_"}

\* C23: no step of query() changes the set of collections, the chunks of a
\* collection or the session registry.
C23_QueriesNeverWrite == [][store' = store /\ sessions' = sessions]_vars

\* a query on local documents for a session without a collection has
\* finished with no sources
C23_Witness ==
    /\ pc = "done"
    /\ query_books
    /\ SanitizeCollectionName(request.session_id) \notin DOMAIN store
    /\ response.sources = <<>>

\* ------------------------------------------------------------------------
\* The books routes served to concurrent requests (api/routes/books.py,
\* api/dependencies.py).  The route bodies are coroutines whose awaits
\* (ingest_book, delete_book_chunks, delete_collection) never suspend, so
\* each body runs in one piece on the event loop.  get_session_manager is
\* a plain function: the framework resolves it on a worker thread, where
\* the lru_cache lookup and the construction of the cached value are
\* separate steps.
\* ------------------------------------------------------------------------

MaxRequests == 2        \* requests served over a run

BookRoutes == {"upload_books", "delete_book", "clear_session"}

InitRequests ==
    /\ store = <<>>
    /\ collection_size = 0
    /\ IdleQuery
    /\ IdleIngest
    /\ pc = "requests"
    /\ sessions = <<>>
    /\ max_books \in 1..MaxBooks
    /\ last_call = NoCall
    /\ added_by = <<>>
    /\ IdleStream
    /\ IdleMcp
    /\ procs = <<>>
    /\ managers = <<>>
    /\ cached = 0
    /\ IdleMcpGlobals
    /\ client = NoClient

RequestsUnchanged ==
    UNCHANGED <<qvars, collection_size, sessions, max_books, last_call, added_by, events,
                registered, connected, attempts, tool_calls, adapter_result,
                mcp_manager, mcp_manager_initialized, client>>

IngestUnchanged ==
    UNCHANGED <<chunker, segments, seg_index, text, code_blocks, start, chunks,
                child_chunks, all_chunks_data>>

\* a request arrives; an upload ingests a book under a fresh id
StartRequest ==
    /\ pc = "requests"
    /\ Len(procs) < MaxRequests
    /\ \E route \in BookRoutes, sid \in SessionIds, b \in 1..MaxRequests :
          /\ route = "upload_books" => b = Len(procs) + 1
          /\ route = "clear_session" => b = 1
          /\ procs' = Append(procs, [route |-> route, session |-> sid,
                                     book |-> IF route = "clear_session" THEN 0 ELSE b,
                                     pc |-> "depends", manager |-> 0, raised |-> ""])
    /\ UNCHANGED <<store, ivars, managers, cached>>
    /\ RequestsUnchanged

\* get_session_manager -> get_session_manager_singleton: the lru_cache
\* lookup.  A hit returns the cached instance, a miss goes on to call the
\* wrapped function
GetSessionManager(r) ==
    /\ pc = "requests"
    /\ r \in DOMAIN procs
    /\ procs[r].pc = "depends"
    /\ procs' = IF cached # 0
                THEN [procs EXCEPT ![r].manager = cached, ![r].pc = "route"]
                ELSE [procs EXCEPT ![r].pc = "construct"]
    /\ UNCHANGED <<store, ivars, managers, cached>>
    /\ RequestsUnchanged

\* the miss path: SessionManager(max_books=...) is built and returned to the
\* caller; it is stored in the cache unless another thread has stored its
\* own instance in the meantime
ConstructSessionManager(r) ==
    /\ pc = "requests"
    /\ r \in DOMAIN procs
    /\ procs[r].pc = "construct"
    /\ managers' = Append(managers, <<>>)
    /\ cached' = IF cached = 0 THEN Len(managers) + 1 ELSE cached
    /\ procs' = [procs EXCEPT ![r].manager = Len(managers) + 1, ![r].pc = "route"]
    /\ UNCHANGED <<store, ivars>>
    /\ RequestsUnchanged

\* upload_books for one file: ingest_book stores the chunks, then add_book
\* registers the book; a SessionLimitError of add_book leaves the route
UploadBooks(r) ==
    /\ pc = "requests"
    /\ r \in DOMAIN procs
    /\ procs[r].pc = "route"
    /\ procs[r].route = "upload_books"
    /\ LET p == procs[r]
           rows == SegmentRows(p.book, 1, 1, next_uuid, FALSE)
           res == AddBook(managers[p.manager], max_books, p.session, p.book)
       IN /\ store' = AddChunks(store, rows, p.session)
          /\ next_uuid' = next_uuid + 1
          /\ managers' = [managers EXCEPT ![p.manager] = res.sessions]
          /\ procs' = [procs EXCEPT ![r].pc = "done", ![r].raised = res.raised]
    /\ IngestUnchanged
    /\ UNCHANGED cached
    /\ RequestsUnchanged

\* delete_book: remove_book, then delete_book_chunks; a BookNotFoundError of
\* remove_book leaves the route before the chunks are deleted
DeleteBook(r) ==
    /\ pc = "requests"
    /\ r \in DOMAIN procs
    /\ procs[r].pc = "route"
    /\ procs[r].route = "delete_book"
    /\ LET p == procs[r]
           res == RemoveBook(managers[p.manager], p.session, p.book)
       IN /\ managers' = [managers EXCEPT ![p.manager] = res.sessions]
          /\ store' = IF res.raised = ""
                      THEN DeleteBookChunks(store, p.session, p.book).store
                      ELSE store
          /\ procs' = [procs EXCEPT ![r].pc = "done", ![r].raised = res.raised]
    /\ UNCHANGED <<ivars, cached>>
    /\ RequestsUnchanged

\* clear_session: clear_session on the manager, then delete_collection
ClearSessionRoute(r) ==
    /\ pc = "requests"
    /\ r \in DOMAIN procs
    /\ procs[r].pc = "route"
    /\ procs[r].route = "clear_session"
    /\ LET p == procs[r]
       IN /\ managers' = [managers EXCEPT ![p.manager] = ClearSession(@, p.session)]
          /\ store' = DeleteCollection(store, p.session).store
          /\ procs' = [procs EXCEPT ![r].pc = "done"]
    /\ UNCHANGED <<ivars, cached>>
    /\ RequestsUnchanged

NextRequests ==
    \/ StartRequest
    \/ \E r \in 1..MaxRequests : GetSessionManager(r)
    \/ \E r \in 1..MaxRequests : ConstructSessionManager(r)
    \/ \E r \in 1..MaxRequests : UploadBooks(r)
    \/ \E r \in 1..MaxRequests : DeleteBook(r)
    \/ \E r \in 1..MaxRequests : ClearSessionRoute(r)

SpecRequests == InitRequests /\ [][NextRequests]_vars

\* the books get_books would list for a session
Listed(ms, c, sid) == IF c = 0 THEN {} ELSE Range(GetBooks(ms[c], sid))

\* the request r has just run the route body
Served(r) == r \in DOMAIN procs /\ procs[r].pc = "route" /\ procs'[r].pc = "done"

\* C24: every add_book that returned successfully is listed by get_books
\* right after it, a listed book stays listed until a delete_book of that
\* book or a clear_session of its session is served, and neither of them
\* touches another book or another session
C24_NoLostUpdates ==
    [][/\ \A r \in DOMAIN procs :
             (Served(r) /\ procs[r].route = "upload_books" /\ procs'[r].raised = "")
                => procs[r].book \in Listed(managers', cached', procs[r].session)
       /\ \A sid \in SessionIds : \A b \in Listed(managers, cached, sid) :
             b \notin Listed(managers', cached', sid)
                => \E r \in DOMAIN procs :
                      /\ Served(r)
                      /\ procs[r].session = sid
                      /\ \/ procs[r].route = "clear_session"
                         \/ procs[r].route = "delete_book" /\ procs[r].book = b]_vars

\* the documents that have chunks in the session's collection
Indexed(st, sid) == {row.book_id : row \in RowsOf(st, sid)}

\* C27: whenever no request is in flight, the documents with chunks in a
\* session's collection are exactly the documents registered in the session
C27_RegistryIndexConsistent ==
    (\A r \in DOMAIN procs : procs[r].pc = "done")
       => \A sid \in SessionIds : Indexed(store, sid) = Listed(managers, cached, sid)

\* ------------------------------------------------------------------------
\* RAGPromptBuilder.build_prompt (llm/prompts.py): the context section.
\* Only lengths matter to the character budget, so a chunk is given by the
\* length of its content, the length of its chapter (0: no chapter) and its
\* page number (NoneInt: none).
\* ------------------------------------------------------------------------

MaxContentLen == 2          \* len(chunk.content) ranges over 0..MaxContentLen
MaxPromptChunks == 2        \* context_chunks has at most this many chunks
MaxContextLength == 40      \* max_context_length ranges over 0..MaxContextLength

PromptChunks ==
    [content_len : 0..MaxContentLen, chapter_len : {0, 5},
     page_number : {NoneInt, 7}]

RECURSIVE DecimalLen(_)
\* len(str(n)) for n >= 0
DecimalLen(n) == IF n < 10 THEN 1 ELSE 1 + DecimalLen(n \div 10)

\* len(_format_source(chunk)): "Chapter: <chapter>" and "Page <n>" joined by
\* ", ", or "Book content" when the chunk has neither
FormatSourceLen(chunk) ==
    LET chapter == IF chunk.chapter_len > 0 THEN <<9 + chunk.chapter_len>> ELSE <<>>
        page == IF chunk.page_number # NoneInt
                THEN <<5 + DecimalLen(chunk.page_number)>> ELSE <<>>
        parts == chapter \o page
    IN IF parts = <<>> THEN 12
       ELSE Sum(parts) + 2 * (Len(parts) - 1)

\* len(f"{chunk.content}\n[Source: {source_info}]")
ChunkTextLen(chunk) == chunk.content_len + 10 + FormatSourceLen(chunk) + 1

RECURSIVE ContextParts(_, _, _, _)
\* the loop of lines 38-48: the lengths of the chunk texts appended to
\* context_parts before the first one that would pass the budget
ContextParts(cs, i, total_length, limit) ==
    IF i > Len(cs) THEN <<>>
    ELSE LET n == ChunkTextLen(cs[i])
         IN IF total_length + n > limit THEN <<>>
            ELSE <<n>> \o ContextParts(cs, i + 1, total_length + n, limit)

\* build_prompt up to line 50: the parts kept and len("\n\n".join(context_parts))
BuildPrompt(cs, limit) ==
    IF cs = <<>> THEN [no_context |-> TRUE, parts |-> <<>>, context_len |-> 0]
    ELSE LET parts == ContextParts(cs, 1, 0, limit)
         IN [no_context |-> FALSE, parts |-> parts,
             context_len |-> IF parts = <<>> THEN 0
                             ELSE Sum(parts) + 2 * (Len(parts) - 1)]

InitPrompt ==
    /\ store = <<>>
    /\ collection_size = 0
    /\ IdleQuery
    /\ IdleIngest
    /\ pc = "prompt"
    /\ IdleSessions
    /\ last_call = NoCall
    /\ added_by = <<>>
    /\ IdleStream
    /\ IdleMcp
    /\ IdleRequests

BuildPromptCall ==
    /\ pc = "prompt"
    /\ \E n \in 0..MaxPromptChunks, limit \in 0..MaxContextLength :
          \E cs \in [1..n -> PromptChunks] :
             last_call' = [op |-> "build_prompt", chunks |-> cs,
                           max_context_length |-> limit,
                           result |-> BuildPrompt(cs, limit)]
    /\ pc' = "done"
    /\ UNCHANGED ivars
    /\ UNCHANGED <<store, qvars_but_pc, collection_size, sessions, max_books, added_by,
                   events, registered, connected, attempts, tool_calls, adapter_result, rvars>>

NextPrompt == BuildPromptCall

SpecPrompt == InitPrompt /\ [][NextPrompt]_vars

\* C25: for any list of context chunks, the context section build_prompt
\* places in the prompt is at most max_context_length characters long
C25_ContextWithinBudget ==
    (last_call.op = "build_prompt" /\ ~last_call.result.no_context)
       => last_call.result.context_len <= last_call.max_context_length

\* ------------------------------------------------------------------------
\* Termination of the window loop of TextChunker.chunk
\* ------------------------------------------------------------------------

\* C26: each iteration of the window loop strictly advances the window
\* start, so the loop terminates and no chunk is emitted twice
C26_WindowAdvances ==
    [][(pc = "window" /\ pc' = "window") => start' > start]_vars

\* ------------------------------------------------------------------------
\* The lazily created MCPManager of the application (api/dependencies.py)
\* and the lifespan shutdown hook (api/main.py).  get_mcp_manager is a
\* coroutine dependency: requests interleave where it awaits, that is at
\* each adapter.connect() of connect_all.
\* ------------------------------------------------------------------------

\* _create_mcp_manager registers, in this order, the adapters the settings
\* configure
ConfiguredAdapters ==
    {SelectSeq(<<"compliance", "mslearn", "export_control">>, LAMBDA a : a \in on) :
        on \in SUBSET AdapterNames}

InitLifespan ==
    /\ store = <<>>
    /\ collection_size = 0
    /\ IdleQuery
    /\ IdleIngest
    /\ pc = "serving"
    /\ IdleSessions
    /\ last_call = NoCall
    /\ added_by = <<>>
    /\ IdleStream
    /\ IdleMcp
    /\ IdleRequests

LifespanUnchanged ==
    /\ UNCHANGED ivars
    /\ UNCHANGED <<store, qvars_but_pc, collection_size, sessions, max_books, last_call,
                   added_by, events, attempts, tool_calls, adapter_result, managers, cached,
                   client>>

\* a request to a route that depends on get_query_service arrives
StartQuery ==
    /\ pc = "serving"
    /\ Len(procs) < MaxRequests
    /\ procs' = Append(procs, [route |-> "query", pc |-> "depends", handed |-> "unset",
                               ran_connect_all |-> FALSE, i |-> 0])
    /\ UNCHANGED <<pc, registered, connected, mcp_manager, mcp_manager_initialized>>
    /\ LifespanUnchanged

\* get_mcp_manager up to its first await: the initialized manager is
\* returned; otherwise the manager is created, the flag is set, and
\* connect_all is entered unless the manager has no adapter
GetMcpManager(r) ==
    /\ pc = "serving"
    /\ r \in DOMAIN procs
    /\ procs[r].pc = "depends"
    /\ IF mcp_manager_initialized
       THEN /\ procs' = [procs EXCEPT ![r].pc = "handed", ![r].handed = mcp_manager]
            /\ UNCHANGED <<registered, mcp_manager, mcp_manager_initialized>>
       ELSE /\ \E regs \in ConfiguredAdapters :
                 /\ registered' = regs
                 /\ procs' = IF regs # <<>>
                             THEN [procs EXCEPT ![r].pc = "connecting", ![r].i = 1,
                                                ![r].ran_connect_all = TRUE]
                             ELSE [procs EXCEPT ![r].pc = "handed", ![r].handed = "manager"]
            /\ mcp_manager' = "manager"
            /\ mcp_manager_initialized' = TRUE
    /\ UNCHANGED <<pc, connected>>
    /\ LifespanUnchanged

\* one iteration of connect_all: adapter.connect() is awaited and connects or
\* fails; after the last adapter get_mcp_manager returns the manager
ConnectAdapter(r) ==
    /\ pc = "serving"
    /\ r \in DOMAIN procs
    /\ procs[r].pc = "connecting"
    /\ LET name == registered[procs[r].i]
       IN \E ok \in BOOLEAN :
             connected' = IF ok THEN connected \cup {name} ELSE connected \ {name}
    /\ procs' = IF procs[r].i < Len(registered)
                THEN [procs EXCEPT ![r].i = @ + 1]
                ELSE [procs EXCEPT ![r].pc = "handed", ![r].handed = "manager"]
    /\ UNCHANGED <<pc, registered, mcp_manager, mcp_manager_initialized>>
    /\ LifespanUnchanged

\* lifespan after the yield: shutdown_aegis_client() closes the legacy
\* client of the health route; the manager and its adapters are not touched
LifespanShutdown ==
    /\ pc = "serving"
    /\ \A r \in DOMAIN procs : procs[r].pc = "handed"
    /\ pc' = "stopped"
    /\ UNCHANGED <<procs, registered, connected, mcp_manager, mcp_manager_initialized>>
    /\ LifespanUnchanged

NextLifespan ==
    \/ StartQuery
    \/ \E r \in 1..MaxRequests : GetMcpManager(r)
    \/ \E r \in 1..MaxRequests : ConnectAdapter(r)
    \/ LifespanShutdown

SpecLifespan == InitLifespan /\ [][NextLifespan]_vars

\* C28: get_mcp_manager never hands a request a manager on which
\* connect_all has not yet finished, and connect_all is run at most once
C28_LazyInitRaceFree ==
    /\ \A r \in DOMAIN procs :
          (procs[r].pc = "handed" /\ procs[r].handed = "manager")
             => ~\E q \in DOMAIN procs : procs[q].pc = "connecting"
    /\ Cardinality({r \in DOMAIN procs : procs[r].ran_connect_all}) <= 1

\* C29: after the lifespan shutdown hook has run, no registered adapter is
\* connected
C29_ShutdownDisconnectsAll ==
    pc = "stopped" => connected \cap Range(registered) = {}

\* ------------------------------------------------------------------------
\* BaseMCPClient (mcp/base_client.py): connect, disconnect, call_tool on one
\* client.  transport is "stdio" or "http", command and http_url tell
\* whether the parameter is given; session and context_manager are "None",
\* "created" (the object is assigned, its __aenter__ has not returned) or
\* "entered".
\* ------------------------------------------------------------------------

ClientResources == {"session", "transport"}

\* where connect() fails: nowhere, in the transport's __aenter__, in the
\* session's __aenter__, or in initialize()
ConnectFailures == {"none", "transport", "session", "handshake"}

\* is_connected
IsConnected(c) == c.session # "None"

\* the parameter the transport requires is given: command for stdio,
\* http_url for http
ParamsGiven(c) == IF c.transport = "stdio" THEN c.command ELSE c.http_url

\* disconnect() that keeps what it could not close
ClientDisconnect_KeepOnError(c, close_raises) ==
    LET s_tried == c.session # "None"
        t_tried == c.context_manager # "None"
    IN [client |-> [c EXCEPT
                      !.session = IF s_tried /\ "session" \in close_raises THEN @ ELSE "None",
                      !.context_manager =
                          IF t_tried /\ "transport" \in close_raises THEN @ ELSE "None"],
        exits |-> (IF s_tried THEN <<"session">> ELSE <<>>)
                  \o (IF t_tried THEN <<"transport">> ELSE <<>>),
        raised |-> ""]

\* disconnect(): the session, then the transport, is exited if it is set; an
\* exception of __aexit__ is logged; the attribute is reset either way
ClientDisconnect(c, close_raises) ==
    LET s_tried == c.session # "None"
        t_tried == c.context_manager # "None"
    IN [client |-> [c EXCEPT !.session = "None", !.context_manager = "None"],
        exits |-> (IF s_tried THEN <<"session">> ELSE <<>>)
                  \o (IF t_tried THEN <<"transport">> ELSE <<>>),
        raised |-> ""]

\* the except handler of connect(): disconnect(), then ConnectionError
ConnectFailed(c, entered, close_raises) ==
    LET d == ClientDisconnect(c, close_raises)
    IN [client |-> d.client, entered |-> entered, exits |-> d.exits,
        raised |-> "ConnectionError"]

\* connect(): the parameter check, the transport's __aenter__, the session's
\* __aenter__ and initialize(), each of which may fail
ClientConnect(c, fail_at, close_raises) ==
    IF ~ParamsGiven(c)
    THEN ConnectFailed(c, {}, close_raises)
    ELSE IF fail_at = "transport"
    THEN ConnectFailed([c EXCEPT !.context_manager = "created"], {}, close_raises)
    ELSE IF fail_at = "session"
    THEN ConnectFailed([c EXCEPT !.context_manager = "entered", !.session = "created"],
                       {"transport"}, close_raises)
    ELSE IF fail_at = "handshake"
    THEN ConnectFailed([c EXCEPT !.context_manager = "entered", !.session = "entered"],
                       {"transport", "session"}, close_raises)
    ELSE [client |-> [c EXCEPT !.context_manager = "entered", !.session = "entered"],
          entered |-> {"transport", "session"}, exits |-> <<>>, raised |-> ""]

\* call_tool(): RuntimeError without a session, otherwise the server is called
ClientCallTool(c) ==
    IF c.session = "None"
    THEN [contacted |-> FALSE, raised |-> "RuntimeError"]
    ELSE [contacted |-> TRUE, raised |-> ""]

InitClient ==
    /\ store = <<>>
    /\ collection_size = 0
    /\ IdleQuery
    /\ IdleIngest
    /\ pc = "client"
    /\ IdleSessions
    /\ last_call = NoCall
    /\ added_by = <<>>
    /\ IdleStream
    /\ IdleMcp
    /\ procs = <<>>
    /\ managers = <<>>
    /\ cached = 0
    /\ IdleMcpGlobals
    /\ client \in [transport : {"stdio", "http"}, command : BOOLEAN, http_url : BOOLEAN,
                    session : {"None"}, context_manager : {"None"}]

ClientUnchanged ==
    /\ UNCHANGED ivars
    /\ UNCHANGED <<store, qvars, collection_size, sessions, max_books, added_by, events,
                   registered, connected, attempts, tool_calls, adapter_result, procs,
                   managers, cached, mcp_manager, mcp_manager_initialized>>

\* adapter.connect() as MCPManager.connect_all calls it: on a client that
\* holds no session
ConnectCall ==
    /\ pc = "client"
    /\ ~IsConnected(client)
    /\ \E fail_at \in ConnectFailures, close_raises \in SUBSET ClientResources :
          LET r == ClientConnect(client, fail_at, close_raises)
          IN /\ client' = r.client
             /\ last_call' = [op |-> "connect", before |-> client, fail_at |-> fail_at,
                              close_raises |-> close_raises, entered |-> r.entered,
                              exits |-> r.exits, raised |-> r.raised]
    /\ ClientUnchanged

DisconnectCall ==
    /\ pc = "client"
    /\ \E close_raises \in SUBSET ClientResources :
          LET r == ClientDisconnect(client, close_raises)
          IN /\ client' = r.client
             /\ last_call' = [op |-> "disconnect", before |-> client,
                              close_raises |-> close_raises, exits |-> r.exits,
                              raised |-> r.raised]
    /\ ClientUnchanged

CallToolCall ==
    /\ pc = "client"
    /\ LET r == ClientCallTool(client)
       IN last_call' = [op |-> "call_tool", before |-> client, contacted |-> r.contacted,
                        raised |-> r.raised]
    /\ UNCHANGED client
    /\ ClientUnchanged

NextClient ==
    \/ ConnectCall
    \/ DisconnectCall
    \/ CallToolCall

SpecClient == InitClient /\ [][NextClient]_vars

====
